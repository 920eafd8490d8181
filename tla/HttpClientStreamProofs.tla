------------------------ MODULE HttpClientStreamProofs ------------------------
(***************************************************************************)
(* OneExchange of HttpClientStream, for every number of pieces of the       *)
(* request and of the response and every order of the application's calls;  *)
(* then what its two users in the framework promise: ProxySound of          *)
(* HttpProxySession and SubscriptionSound of SseClient.                     *)
(*                                                                         *)
(* The two directions share the socket and started, and are proved one by   *)
(* one: WriteInv says which operation may still append to the wire, ReadInv *)
(* how far the parser is when a part of the response is asked for.          *)
(***************************************************************************)
EXTENDS ClientStreams, TLAPS

WriteOps == {"idle", "answer", "start", "resolve", "connect", "tls", "header",
             "write", "body", "finish", "end"}
ReadOps == {"idle", "answer", "readHead", "head", "readSome", "part"}
Outs == {"pending", "ok", "error", "final", "interim", "done"}

WriteRecord == [op : WriteOps, out : Outs, arg : Int]
ReadRecord == [op : ReadOps, out : Outs, arg : Int]

(* Operations before the header is written. *)
Opening == {"start", "resolve", "connect", "tls", "header"}

(* A header and the body in order, without an end. *)
Plain(s) == \A i \in 1..Len(s) : s[i] = i - 1

(* The header is written before the request is started, and once; a body    *)
(* operation writes the piece that is next and only until the request is    *)
(* finished; the end is written once, by the call that finished it.         *)
WriteInv ==
  /\ w \in WriteRecord
  /\ wire \in Seq(Int) /\ started \in BOOLEAN /\ requestFinished \in BOOLEAN
  /\ started <=> wire # <<>>
  /\ requestFinished => started
  /\ w.op \in Opening => ~started
  /\ w.op \in {"write", "body"} => w.arg = Len(wire)
  /\ w.op = "body" => MayWrite
  /\ w.op = "end" => requestFinished
  /\ ~requestFinished \/ w.op = "end" => Plain(wire)
  /\ OneRequestOnWire

(* The head is read by a parser that has read nothing, a part by one whose  *)
(* response is not complete.                                                *)
ReadInv ==
  /\ r \in ReadRecord
  /\ got \in Seq(Int) /\ parts \in Nat
  /\ parser \in {"none", "head", "body", "done"}
  /\ parser \in {"none", "head"} => got = <<>>
  /\ parser = "body" => Len(got) \in 1..parts
  /\ parser = "done" => Len(got) = parts + 1
  /\ r.op = "readHead" => parser = "none"
  /\ r.op = "head" => parser = "head"
  /\ r.op = "readSome" => parser # "head"
  /\ r.op = "part" => parser = "body" /\ r.arg = Len(got)
  /\ OneResponseRead

LinkInv ==
  /\ link \in {"none", "up", "closed"}
  /\ {useTls, made, cancelled, restarted} \subseteq BOOLEAN

Inv == WriteInv /\ ReadInv /\ LinkInv

-----------------------------------------------------------------------------
(* Only these variables matter to each part. *)
LEMMA WriteFrame ==
  ASSUME WriteInv, UNCHANGED <<w, wire, started, requestFinished>>
  PROVE  WriteInv'
  BY DEF WriteInv, MayWrite, Plain, OneRequestOnWire

(* A step that leaves the response direction alone. *)
LEMMA ReadFrame ==
  ASSUME ReadInv, UNCHANGED <<r, got, parts, parser>>
  PROVE  ReadInv'
  BY DEF ReadInv, OneResponseRead

(* An operation of the request direction that ends, or that writes nothing. *)
LEMMA WriteQuiet ==
  ASSUME WriteInv, UNCHANGED <<wire, started, requestFinished>>,
         w' \in WriteRecord,
         \/ w'.op \in {"idle", "answer", "finish"}
         \/ w'.op = w.op /\ w'.arg = w.arg
         \/ w'.op \in Opening /\ ~started
         \/ w'.op = "write" /\ w'.arg = Len(wire)
  PROVE  WriteInv'
<1>1. Len(wire) \in Nat
  BY DEF WriteInv
<1> QED
  BY <1>1 DEF WriteInv, MayWrite, Plain, OneRequestOnWire, Opening

(* An operation of the response direction that ends, or reads nothing. *)
LEMMA ReadQuiet ==
  ASSUME ReadInv, UNCHANGED <<got, parts, parser>>,
         r' \in ReadRecord,
         \/ r'.op \in {"idle", "answer"}
         \/ r'.op = r.op /\ r'.arg = r.arg
         \/ r'.op = "readHead" /\ parser = "none"
         \/ r'.op = "readSome" /\ parser # "head"
         \/ r'.op = "part" /\ parser = "body" /\ r'.arg = Len(got)
  PROVE  ReadInv'
  BY DEF ReadInv, OneResponseRead

(* What Append does to a sequence of pieces. *)
LEMMA AppendFacts ==
  ASSUME NEW s \in Seq(Int), NEW p \in Int
  PROVE  /\ Append(s, p) \in Seq(Int) /\ Append(s, p) # <<>>
         /\ Len(s) \in Nat /\ Len(Append(s, p)) = Len(s) + 1
         /\ Append(s, p)[Len(s) + 1] = p
         /\ \A i \in 1..Len(s) : Append(s, p)[i] = s[i]
  OBVIOUS

(* The next piece in order keeps the order. *)
LEMMA AppendNext ==
  ASSUME NEW s \in Seq(Int), Plain(s)
  PROVE  Plain(Append(s, Len(s)))
<1>1. Len(s) \in Nat /\ Len(s) \in Int
  OBVIOUS
<1> SUFFICES ASSUME NEW i \in 1..(Len(s) + 1)
             PROVE  Append(s, Len(s))[i] = i - 1
  BY <1>1, AppendFacts DEF Plain
<1>2. CASE i = Len(s) + 1
  BY <1>1, <1>2, AppendFacts
<1>3. CASE i \in 1..Len(s)
  BY <1>1, <1>3, AppendFacts DEF Plain
<1> QED
  BY <1>1, <1>2, <1>3

(* What the handlers build: an operation that is posted or begins, and the  *)
(* answer to a call.                                                        *)
LEMMA BeginFacts ==
  ASSUME NEW o, NEW a \in Int, NEW x, x \in {Begin(o, a), Post(o, a)}
  PROVE  /\ x.op = o /\ x.arg = a
         /\ o \in WriteOps => x \in WriteRecord
         /\ o \in ReadOps => x \in ReadRecord
  BY DEF Begin, Post, WriteRecord, ReadRecord, Outs

(* What a direction is after its operation was answered. *)
LEMMA AnswerFacts ==
  ASSUME NEW out \in Outs, NEW x, x \in {Answer(out), Idle}
  PROVE  /\ x.op \in {"answer", "idle"}
         /\ x \in WriteRecord /\ x \in ReadRecord
  BY DEF Answer, Idle, WriteRecord, ReadRecord, WriteOps, ReadOps, Outs

(* Operations and outcomes that the handlers use. *)
LEMMA OpFacts ==
  /\ {"start", "write", "body", "finish", "end"} \subseteq WriteOps
  /\ {"readHead", "head", "readSome", "part"} \subseteq ReadOps
  /\ 0 \in Int
  BY DEF WriteOps, ReadOps

(* The outcomes that the handlers use. *)
LEMMA OutsFacts == "ok" \in Outs /\ "error" \in Outs /\ "done" \in Outs
  BY DEF Outs

(* Answering a call, or opening the connection, writes and reads nothing. *)
LEMMA WriteAnswers ==
  ASSUME WriteInv, UNCHANGED <<wire, started, requestFinished>>,
         NEW out \in Outs, w' = Answer(out)
  PROVE  WriteInv'
<1>1. w' \in WriteRecord /\ w'.op \in {"idle", "answer"}
  BY AnswerFacts
<1> QED
  BY <1>1, WriteQuiet

(* The request direction starts a step of establishing the link. *)
LEMMA WriteOpens ==
  ASSUME WriteInv, UNCHANGED <<wire, started, requestFinished>>,
         NEW o \in Opening, ~started, w' = Begin(o, 0)
  PROVE  WriteInv'
<1>1. o \in WriteOps /\ 0 \in Int
  BY DEF Opening, WriteOps
<1>2. w' \in WriteRecord /\ w'.op = o
  BY <1>1, BeginFacts
<1> QED
  BY <1>2, WriteQuiet

(* The response direction answers its operation. *)
LEMMA ReadAnswers ==
  ASSUME ReadInv, UNCHANGED <<got, parts, parser>>,
         NEW out \in Outs, r' = Answer(out)
  PROVE  ReadInv'
<1>1. r' \in ReadRecord /\ r'.op \in {"idle", "answer"}
  BY AnswerFacts
<1> QED
  BY <1>1, ReadQuiet

(* How an operation ended changes neither the operation nor its piece. *)
LEMMA FinishedKeeps ==
  ASSUME NEW how \in {"ok", "error", "final", "interim"}, Inv
  PROVE  /\ w' = [w EXCEPT !.out = how] /\ UNCHANGED <<wire, started, requestFinished>>
              => WriteInv'
         /\ r' = [r EXCEPT !.out = how] /\ UNCHANGED <<got, parts, parser>>
              => ReadInv'
<1>1. how \in Outs /\ w \in WriteRecord /\ r \in ReadRecord
  BY DEF Outs, Inv, WriteInv, ReadInv
<1>2. ASSUME w' = [w EXCEPT !.out = how], UNCHANGED <<wire, started, requestFinished>>
      PROVE  WriteInv'
  <2>1. w' \in WriteRecord /\ w'.op = w.op /\ w'.arg = w.arg
    BY <1>1, <1>2 DEF WriteRecord
  <2> QED
    BY <1>2, <2>1, WriteQuiet DEF Inv
<1>3. ASSUME r' = [r EXCEPT !.out = how], UNCHANGED <<got, parts, parser>>
      PROVE  ReadInv'
  <2>1. r' \in ReadRecord /\ r'.op = r.op /\ r'.arg = r.arg
    BY <1>1, <1>3 DEF ReadRecord
  <2> QED
    BY <1>3, <2>1, ReadQuiet DEF Inv
<1> QED
  BY <1>2, <1>3

-----------------------------------------------------------------------------
(* The request direction. *)

(* start, on the executor, keeps the invariant. *)
LEMMA StartKeeps ==
  ASSUME Inv, StartOnExecutor
  PROVE  Inv'
<1>1. UNCHANGED <<config, started, requestFinished, parser, interim, got,
                  cancelled>> /\ w.op = "start" /\ parts' = parts
  BY DEF StartOnExecutor, config
<1>2. ~started /\ WriteInv /\ ReadInv /\ LinkInv /\ wire = <<>>
  BY <1>1 DEF Inv, WriteInv, Opening
<1>3. (w' = Answer("error") \/ w' = Begin("resolve", 0)) /\ wire' = wire
  BY <1>2 DEF StartOnExecutor
<1>4. WriteInv'
  BY <1>1, <1>2, <1>3, WriteAnswers, WriteOpens, OutsFacts DEF Opening
<1>5. ReadInv'
  <2>1. CASE r' = r
    BY <1>1, <1>2, <2>1, ReadFrame
  <2>2. CASE r' = [r EXCEPT !.out = "error"]
    BY <1>1, <2>2, FinishedKeeps
  <2> QED
    BY <2>1, <2>2 DEF StartOnExecutor, Aborted
<1>6. LinkInv'
  BY <1>1, <1>2 DEF LinkInv, StartOnExecutor, config
<1> QED
  BY <1>4, <1>5, <1>6 DEF Inv

(* Resolving, connecting and the TLS handshake keep the invariant. *)
LEMMA ConnectedKeeps ==
  ASSUME Inv, Connected
  PROVE  Inv'
<1>1. UNCHANGED <<config, r, made, started, requestFinished, parser, interim,
                  wire, got, cancelled>> /\ w.op \in {"resolve", "connect", "tls"}
  BY DEF Connected
<1>2. ~started /\ WriteInv /\ ReadInv /\ LinkInv
  BY <1>1 DEF Inv, WriteInv, Opening
<1>3. PICK o \in {"connect", "tls", "header"} :
        w' = Answer("error") \/ w' = Begin(o, 0)
  BY <1>1 DEF Connected, NextStep
<1>4. WriteInv'
  BY <1>1, <1>2, <1>3, WriteAnswers, WriteOpens, OutsFacts DEF Opening
<1>5. ReadInv'
  BY <1>1, <1>2, ReadFrame DEF config
<1>6. LinkInv'
  BY <1>1, <1>2 DEF LinkInv, Connected, config
<1> QED
  BY <1>4, <1>5, <1>6 DEF Inv

(* The header is the first that is written. *)
LEMMA HeaderKeeps ==
  ASSUME Inv, HeaderWritten
  PROVE  Inv'
<1>1. UNCHANGED <<config, r, made, link, requestFinished, parser, interim, got,
                  cancelled>> /\ w.op = "header" /\ w' = Answer(w.out)
  BY DEF HeaderWritten
<1>2. /\ ~started /\ WriteInv /\ ReadInv /\ LinkInv
      /\ wire = <<>> /\ ~requestFinished /\ w.out \in Outs
  BY <1>1 DEF Inv, WriteInv, Opening, WriteRecord
<1>3. w' \in WriteRecord /\ w'.op \in {"idle", "answer"}
  BY <1>1, <1>2, AnswerFacts
<1>4. WriteInv'
  <2>1. CASE w.out = "ok"
    <3>1. wire' = Append(wire, 0) /\ started' = TRUE /\ Len(wire) = 0 /\ wire \in Seq(Int)
      BY <1>2, <2>1 DEF HeaderWritten, StartedAfter, Head0, WriteInv
    <3>2. wire' \in Seq(Int) /\ wire' # <<>> /\ Len(wire') = 1 /\ wire'[1] = 0
      BY <3>1, AppendFacts
    <3>3. Plain(wire)' /\ OneRequestOnWire'
      BY <3>2 DEF Plain, OneRequestOnWire
    <3> QED
      BY <1>1, <1>2, <1>3, <3>1, <3>2, <3>3 DEF WriteInv, Opening
  <2>2. CASE w.out # "ok"
    <3>1. wire' = wire /\ started' = started
      BY <1>2, <2>2 DEF HeaderWritten, StartedAfter, WriteInv
    <3> QED
      BY <1>1, <1>2, <1>3, <3>1, WriteQuiet
  <2> QED
    BY <2>1, <2>2
<1>5. ReadInv'
  BY <1>1, <1>2, ReadFrame DEF config
<1>6. LinkInv'
  BY <1>1, <1>2 DEF LinkInv, config
<1> QED
  BY <1>4, <1>5, <1>6 DEF Inv

(* write, on the executor, keeps the invariant. *)
LEMMA WriteKeeps ==
  ASSUME Inv, WriteOnExecutor
  PROVE  Inv'
<1>1. UNCHANGED <<config, r, conn, interim, wire, got, cancelled>> /\ w.op = "write"
  BY DEF WriteOnExecutor
<1>2. /\ WriteInv /\ ReadInv /\ LinkInv /\ w.arg = Len(wire) /\ w.arg \in Int
  BY <1>1 DEF Inv, WriteInv
<1>3. WriteInv'
  <2>1. CASE MayWrite
    <3>1. w' = Begin("body", w.arg)
      BY <2>1 DEF WriteOnExecutor
    <3>2. /\ w' \in WriteRecord
          /\ w'.op = "body" /\ w'.arg = Len(wire)
      BY <1>2, <3>1, BeginFacts, OpFacts
    <3> QED
      BY <1>1, <1>2, <2>1, <3>2 DEF WriteInv, MayWrite, Plain, OneRequestOnWire,
         Opening, conn
  <2>2. CASE ~MayWrite
    <3>1. w' = Answer("error")
      BY <2>2 DEF WriteOnExecutor
    <3> QED
      BY <1>1, <1>2, <3>1, WriteAnswers, OutsFacts DEF conn
  <2> QED
    BY <2>1, <2>2
<1>4. ReadInv' /\ LinkInv'
  BY <1>1, <1>2, ReadFrame DEF config, conn, LinkInv
<1> QED
  BY <1>3, <1>4 DEF Inv

(* finish, on the executor, keeps the invariant. *)
LEMMA FinishKeeps ==
  ASSUME Inv, FinishOnExecutor
  PROVE  Inv'
<1>1. UNCHANGED <<config, r, made, link, started, parser, interim, wire, got,
                  cancelled>> /\ w.op = "finish"
      /\ requestFinished' = (requestFinished \/ MayWrite)
  BY DEF FinishOnExecutor
<1>2. WriteInv /\ ReadInv /\ LinkInv
  BY DEF Inv
<1>3. WriteInv'
  <2>1. CASE MayWrite
    <3>1. w' = Answer("ok") \/ w' = Begin("end", 0)
      BY <2>1 DEF FinishOnExecutor
    <3>2. /\ w' \in WriteRecord
          /\ w'.op \in {"idle", "answer", "end"}
      BY <3>1, BeginFacts, AnswerFacts, OpFacts, OutsFacts
    <3>3. Plain(wire) /\ started
      BY <1>2, <2>1 DEF WriteInv, MayWrite
    <3>4. OneRequestOnWire'
      BY <1>1, <3>3 DEF Plain, OneRequestOnWire
    <3> QED
      BY <1>1, <1>2, <2>1, <3>2, <3>3, <3>4 DEF WriteInv, Plain, Opening
  <2>2. CASE ~MayWrite
    <3>1. w' = Answer("error") /\ requestFinished' = requestFinished
      BY <1>1, <1>2, <2>2 DEF FinishOnExecutor, WriteInv
    <3> QED
      BY <1>1, <1>2, <3>1, WriteAnswers, OutsFacts
  <2> QED
    BY <2>1, <2>2
<1>4. ReadInv' /\ LinkInv'
  BY <1>1, <1>2, ReadFrame DEF config, LinkInv
<1> QED
  BY <1>3, <1>4 DEF Inv

(* A piece of the body is the next one; the end follows the whole of it. *)
LEMMA BodyKeeps ==
  ASSUME Inv, BodyWritten
  PROVE  Inv'
<1>1. UNCHANGED <<config, r, conn, interim, got, cancelled>>
      /\ w.op \in {"body", "end"} /\ w' = Answer(w.out)
  BY DEF BodyWritten
<1>2. WriteInv /\ ReadInv /\ LinkInv /\ w.out \in Outs /\ wire \in Seq(Int)
  BY DEF Inv, WriteInv, WriteRecord
<1>3. w' \in WriteRecord /\ w'.op \in {"idle", "answer"}
  BY <1>1, <1>2, AnswerFacts
<1>4. WriteInv'
  <2>1. CASE w.out # "ok"
    <3>1. wire' = wire
      BY <2>1 DEF BodyWritten
    <3> QED
      BY <1>1, <1>2, <1>3, <3>1, WriteQuiet DEF conn
  <2>2. CASE w.out = "ok" /\ w.op = "body"
    <3>1. wire' = Append(wire, Len(wire)) /\ MayWrite
      BY <1>2, <2>2 DEF BodyWritten, WriteInv
    <3>2. Plain(wire)'
      BY <1>2, <3>1, AppendNext DEF WriteInv, MayWrite, Plain
    <3>3. wire' \in Seq(Int) /\ wire' # <<>>
      BY <1>2, <3>1, AppendFacts
    <3>4. OneRequestOnWire'
      BY <3>2 DEF Plain, OneRequestOnWire
    <3> QED
      BY <1>1, <1>2, <1>3, <3>1, <3>2, <3>3, <3>4
      DEF WriteInv, MayWrite, Opening, conn
  <2>3. CASE w.out = "ok" /\ w.op = "end"
    <3>1. /\ wire' = Append(wire, End) /\ requestFinished /\ started
          /\ Plain(wire) /\ wire # <<>> /\ End \in Int
      BY <1>2, <2>3 DEF BodyWritten, WriteInv, End
    <3>2. /\ wire' \in Seq(Int) /\ wire' # <<>> /\ Len(wire) \in Nat
          /\ Len(wire') = Len(wire) + 1 /\ Len(wire) # 0
          /\ wire'[Len(wire) + 1] = End
          /\ \A i \in 1..Len(wire) : wire'[i] = wire[i]
      BY <1>2, <3>1, AppendFacts
    <3>3. OneRequestOnWire'
      <4> SUFFICES ASSUME NEW i \in 1..Len(wire')
                   PROVE  \/ wire'[i] = i - 1
                          \/ wire'[i] = End /\ i > 1 /\ i = Len(wire') /\ requestFinished'
        BY DEF OneRequestOnWire
      <4>1. CASE i = Len(wire) + 1
        BY <1>1, <3>1, <3>2, <4>1 DEF conn
      <4>2. CASE i \in 1..Len(wire)
        BY <3>1, <3>2, <4>2 DEF Plain
      <4> QED
        BY <3>2, <4>1, <4>2
    <3> QED
      BY <1>1, <1>2, <1>3, <3>1, <3>2, <3>3 DEF WriteInv, Opening, conn
  <2> QED
    BY <1>1, <2>1, <2>2, <2>3
<1>5. ReadInv' /\ LinkInv'
  BY <1>1, <1>2, ReadFrame DEF config, conn, LinkInv
<1> QED
  BY <1>4, <1>5 DEF Inv

-----------------------------------------------------------------------------
(* The response direction. *)

(* read_head, on the executor, keeps the invariant. *)
LEMMA ReadHeadKeeps ==
  ASSUME Inv, ReadHeadOnExecutor
  PROVE  Inv'
<1>1. UNCHANGED <<config, w, made, link, started, requestFinished, interim,
                  wire, got, cancelled>> /\ r.op = "readHead"
  BY DEF ReadHeadOnExecutor
<1>2. WriteInv /\ ReadInv /\ LinkInv /\ parser = "none" /\ got = <<>>
  BY <1>1 DEF Inv, ReadInv
<1>3. ReadInv'
  <2>1. CASE started
    <3>1. r' = Begin("head", 0) /\ parser' = "head"
      BY <2>1 DEF ReadHeadOnExecutor
    <3>2. r' \in ReadRecord /\ r'.op = "head"
      BY <3>1, BeginFacts, OpFacts
    <3> QED
      BY <1>1, <1>2, <3>1, <3>2 DEF ReadInv, OneResponseRead, config
  <2>2. CASE ~started
    <3>1. r' = Answer("error") /\ parser' = parser
      BY <2>2 DEF ReadHeadOnExecutor
    <3> QED
      BY <1>1, <1>2, <3>1, ReadAnswers, OutsFacts DEF config
  <2> QED
    BY <2>1, <2>2
<1>4. WriteInv' /\ LinkInv'
  BY <1>1, <1>2, WriteFrame DEF config, LinkInv
<1> QED
  BY <1>3, <1>4 DEF Inv

(* The head that is kept is the first piece of the response. *)
LEMMA HeadReadKeeps ==
  ASSUME Inv, HeadRead
  PROVE  Inv'
<1>1. UNCHANGED <<config, w, made, link, started, requestFinished, interim,
                  wire, cancelled>> /\ r.op = "head"
  BY DEF HeadRead
<1>2. WriteInv /\ ReadInv /\ LinkInv /\ parser = "head" /\ got = <<>> /\ parts \in Nat
  BY <1>1 DEF Inv, ReadInv
<1>3. ReadInv'
  <2>1. CASE /\ r' = Answer("error") \/ r' = Begin("head", 0)
             /\ UNCHANGED <<parser, got>>
    <3>1. r' \in ReadRecord /\ r'.op \in {"idle", "answer", "head"}
      BY <2>1, BeginFacts, AnswerFacts, OpFacts, OutsFacts
    <3> QED
      BY <1>1, <1>2, <2>1, <3>1 DEF ReadInv, OneResponseRead, config
  <2>2. CASE /\ r.out = "final" /\ r' = Answer("ok")
             /\ parser' = IF parts = 0 THEN "done" ELSE "body"
             /\ got' = Append(got, IF r.out = "final" THEN Head0 ELSE Interim)
    <3>0. got' = Append(got, 0) /\ Len(got) = 0 /\ got \in Seq(Int)
      BY <1>2, <2>2 DEF Head0, ReadInv
    <3>1. Len(got') = 1 /\ got'[1] = 0 /\ got' \in Seq(Int) /\ got' # <<>>
      BY <3>0, AppendFacts
    <3>2. r' \in ReadRecord /\ r'.op \in {"idle", "answer"}
      BY <2>2, AnswerFacts, OutsFacts
    <3>3. parts' = parts
      BY <1>1 DEF config
    <3>4. OneResponseRead'
      BY <1>2, <3>1, <3>3 DEF OneResponseRead
    <3>5. /\ parser' \in {"body", "done"}
          /\ parser' = "body" => Len(got') \in 1..parts
          /\ parser' = "done" => Len(got') = parts + 1
      BY <1>2, <2>2, <3>1
    <3> QED
      BY <1>2, <3>1, <3>2, <3>3, <3>4, <3>5 DEF ReadInv
  <2> QED
    BY <2>1, <2>2 DEF HeadRead, FinalHeads
<1>4. WriteInv' /\ LinkInv'
  BY <1>1, <1>2, WriteFrame DEF config, LinkInv
<1> QED
  BY <1>3, <1>4 DEF Inv

(* read_some, on the executor, keeps the invariant. *)
LEMMA ReadSomeKeeps ==
  ASSUME Inv, ReadOnExecutor
  PROVE  Inv'
<1>1. UNCHANGED <<config, w, conn, interim, wire, cancelled>> /\ r.op = "readSome"
      /\ UNCHANGED got
  BY DEF ReadOnExecutor
<1>2. WriteInv /\ ReadInv /\ LinkInv /\ parser # "head" /\ Len(got) \in Int
  BY <1>1 DEF Inv, ReadInv
<1>3. \/ r' \in {Answer("error"), Answer("done")}
      \/ r' = Begin("part", Len(got)) /\ parser = "body"
  BY <1>2 DEF ReadOnExecutor, HasResponse, AllRead, Part, ReadInv
<1>4. ReadInv'
  <2>1. CASE r' \in {Answer("error"), Answer("done")}
    BY <1>1, <1>2, <2>1, ReadAnswers, OutsFacts DEF config, conn
  <2>2. CASE r' = Begin("part", Len(got)) /\ parser = "body"
    <3>1. /\ r' \in ReadRecord
          /\ r'.op = "part" /\ r'.arg = Len(got)
      BY <1>2, <2>2, BeginFacts, OpFacts
    <3> QED
      BY <1>1, <1>2, <2>2, <3>1, ReadQuiet DEF config, conn
  <2> QED
    BY <1>3, <2>1, <2>2
<1>5. WriteInv' /\ LinkInv'
  BY <1>1, <1>2, WriteFrame DEF config, conn, LinkInv
<1> QED
  BY <1>4, <1>5 DEF Inv

(* A part is the one after what was read, and within the response. *)
LEMMA PartReadKeeps ==
  ASSUME Inv, PartRead
  PROVE  Inv'
<1>1. UNCHANGED <<config, w, made, link, started, requestFinished, interim,
                  wire, cancelled>> /\ r.op = "part"
  BY DEF PartRead
<1>2. /\ WriteInv /\ ReadInv /\ LinkInv /\ parser = "body" /\ r.arg = Len(got)
      /\ Len(got) \in 1..parts /\ parts \in Nat /\ got \in Seq(Int)
      /\ parts' = parts
  BY <1>1 DEF Inv, ReadInv, config
<1>3. ReadInv'
  <2>1. CASE r' = Answer("error") /\ UNCHANGED <<parser, got>>
    BY <1>2, <2>1, ReadAnswers, OutsFacts
  <2>2. CASE r.out = "ok"
    <3>1. /\ got' = Append(got, Len(got))
          /\ parser' = IF Len(got) = parts THEN "done" ELSE "body"
      BY <1>2, <2>2 DEF PartRead
    <3>2. r' \in ReadRecord /\ r'.op = "answer"
      <4>1. PICK out \in {"ok", "done"} : r' = [Answer(out) EXCEPT !.arg = r.arg]
        BY <2>2 DEF PartRead
      <4>2. r' = [op |-> "answer", out |-> out, arg |-> r.arg] /\ r.arg \in Int
        BY <1>2, <4>1 DEF Answer
      <4> QED
        BY <4>2 DEF ReadRecord, ReadOps, Outs
    <3>3. /\ got' \in Seq(Int) /\ Len(got') = Len(got) + 1
          /\ got'[Len(got) + 1] = Len(got)
          /\ \A i \in 1..Len(got) : got'[i] = got[i]
      BY <1>2, <3>1, AppendFacts
    <3>4. OneResponseRead'
      <4> SUFFICES ASSUME NEW i \in 1..Len(got')
                   PROVE  got'[i] = i - 1 /\ i - 1 <= parts
        BY <1>2 DEF OneResponseRead
      <4>1. CASE i = Len(got) + 1
        BY <1>2, <3>3, <4>1
      <4>2. CASE i \in 1..Len(got)
        BY <1>2, <3>3, <4>2 DEF ReadInv, OneResponseRead
      <4> QED
        BY <1>2, <3>3, <4>1, <4>2
    <3> QED
      BY <1>2, <3>1, <3>2, <3>3, <3>4 DEF ReadInv
  <2> QED
    BY <2>1, <2>2 DEF PartRead
<1>4. WriteInv' /\ LinkInv'
  BY <1>1, <1>2, WriteFrame DEF config, LinkInv
<1> QED
  BY <1>3, <1>4 DEF Inv

-----------------------------------------------------------------------------
(* The network, cancel() and the application. *)

(* What the network answers keeps the invariant. *)
LEMMA NetworkKeeps ==
  ASSUME Inv, StreamNetwork
  PROVE  Inv'
<1>1. PICK how \in {"ok", "error", "final", "interim"} : FinishWrite(how) \/ FinishRead(how)
  BY DEF StreamNetwork
<1>2. CASE FinishWrite(how)
  <2>1. WriteInv'
    BY <1>2, FinishedKeeps DEF FinishWrite
  <2>2. ReadInv'
    BY <1>2, ReadFrame DEF FinishWrite, Inv, config
  <2>3. LinkInv'
    BY <1>2 DEF FinishWrite, Inv, LinkInv, config
  <2> QED
    BY <2>1, <2>2, <2>3 DEF Inv
<1>3. CASE FinishRead(how)
  <2>1. ReadInv'
    BY <1>3, FinishedKeeps DEF FinishRead, config, conn
  <2>2. WriteInv'
    BY <1>3, WriteFrame DEF FinishRead, Inv, conn
  <2>3. LinkInv'
    BY <1>3 DEF FinishRead, Inv, LinkInv, config, conn
  <2> QED
    BY <2>1, <2>2, <2>3 DEF Inv
<1> QED
  BY <1>1, <1>2, <1>3

(* cancel keeps the invariant. *)
LEMMA CancelKeeps ==
  ASSUME Inv, Cancel
  PROVE  Inv'
<1>1. UNCHANGED <<config, made, started, requestFinished, parser, interim,
                  wire, got>> /\ parts' = parts
  BY DEF Cancel, config
<1>2. WriteInv'
  <2>1. CASE w' = w
    BY <1>1, <2>1, WriteFrame DEF Inv
  <2>2. CASE w' = [w EXCEPT !.out = "error"]
    BY <1>1, <2>2, FinishedKeeps
  <2> QED
    BY <2>1, <2>2 DEF Cancel, Aborted
<1>3. ReadInv'
  <2>1. CASE r' = r
    BY <1>1, <2>1, ReadFrame DEF Inv
  <2>2. CASE r' = [r EXCEPT !.out = "error"]
    BY <1>1, <2>2, FinishedKeeps
  <2> QED
    BY <2>1, <2>2 DEF Cancel, Aborted
<1>4. LinkInv'
  BY <1>1 DEF Cancel, Inv, LinkInv, config
<1> QED
  BY <1>2, <1>3, <1>4 DEF Inv

(* Any call, at any time its direction is idle, is posted only. *)
LEMMA CallKeeps ==
  ASSUME Inv, Call, ~restarted'
  PROVE  Inv'
<1>1. UNCHANGED <<useTls, length, parts, conn, interim, wire, got, cancelled>>
  BY DEF Call
<1>2. UNCHANGED <<started, requestFinished, parser, parts>> /\ LinkInv'
  BY <1>1 DEF Inv, LinkInv, conn, Call
<1>3. WriteInv /\ ReadInv /\ Len(wire) \in Int
  BY DEF Inv, WriteInv
<1>4. WriteInv'
  <2>1. CASE w' = w
    BY <1>1, <1>2, <1>3, <2>1, WriteFrame
  <2>2. CASE w' = Post("start", 0) /\ ~started
    <3>1. w' \in WriteRecord /\ w'.op = "start"
      BY <2>2, BeginFacts, OpFacts
    <3> QED
      BY <1>1, <1>2, <1>3, <2>2, <3>1, WriteQuiet DEF Opening
  <2>3. CASE w' = Post("write", Len(wire))
    <3>1. w' \in WriteRecord /\ w'.op = "write" /\ w'.arg = Len(wire)
      BY <1>3, <2>3, BeginFacts, OpFacts
    <3> QED
      BY <1>1, <1>2, <1>3, <3>1, WriteQuiet
  <2>4. CASE w' = Post("finish", 0)
    <3>1. w' \in WriteRecord /\ w'.op = "finish"
      BY <2>4, BeginFacts, OpFacts
    <3> QED
      BY <1>1, <1>2, <1>3, <3>1, WriteQuiet
  <2> QED
    BY <1>3, <2>1, <2>2, <2>3, <2>4
    DEF Call, AsyncStart, AsyncWrite, AsyncFinish, WriteInv
<1>5. ReadInv'
  <2>1. CASE r' = r
    BY <1>1, <1>2, <1>3, <2>1, ReadFrame
  <2>2. CASE r' = Post("readHead", 0) /\ parser = "none"
    <3>1. r' \in ReadRecord /\ r'.op = "readHead"
      BY <2>2, BeginFacts, OpFacts
    <3> QED
      BY <1>1, <1>2, <1>3, <2>2, <3>1, ReadQuiet
  <2>3. CASE r' = Post("readSome", 0) /\ parser # "head"
    <3>1. r' \in ReadRecord /\ r'.op = "readSome"
      BY <2>3, BeginFacts, OpFacts
    <3> QED
      BY <1>1, <1>2, <1>3, <2>3, <3>1, ReadQuiet
  <2> QED
    BY <2>1, <2>2, <2>3 DEF Call, AsyncReadHead, AsyncRead
<1> QED
  BY <1>2, <1>4, <1>5 DEF Inv

(* A callback that returns, and what it calls, keeps the invariant. *)
LEMMA ReturnKeeps ==
  ASSUME Inv, ReturnWrite \/ ReturnRead
  PROVE  Inv'
<1>1. UNCHANGED <<config, conn, interim, wire, got, cancelled>>
  BY DEF ReturnWrite, ReturnRead
<1>2. UNCHANGED <<started, requestFinished, parser, parts>> /\ LinkInv'
  BY <1>1 DEF Inv, LinkInv, config, conn
<1>3. Idle \in WriteRecord /\ Idle \in ReadRecord /\ Idle.op = "idle"
  BY DEF Idle, WriteRecord, ReadRecord, WriteOps, ReadOps, Outs
<1>4. WriteInv'
  <2>1. CASE w' = w
    BY <1>1, <1>2, <2>1, WriteFrame DEF Inv
  <2>2. CASE w' = Idle
    BY <1>1, <1>2, <1>3, <2>2, WriteQuiet DEF Inv
  <2> QED
    BY <2>1, <2>2 DEF ReturnWrite, ReturnRead
<1>5. ReadInv'
  <2>1. CASE r' = r
    BY <1>1, <1>2, <2>1, ReadFrame DEF Inv
  <2>2. CASE r' = Idle
    BY <1>1, <1>2, <1>3, <2>2, ReadQuiet DEF Inv
  <2> QED
    BY <2>1, <2>2 DEF ReturnWrite, ReturnRead
<1> QED
  BY <1>2, <1>4, <1>5 DEF Inv

-----------------------------------------------------------------------------
(* The initial state satisfies the invariant. *)
LEMMA InitInv == Init => Inv
<1> SUFFICES ASSUME Init PROVE Inv
  OBVIOUS
<1>1. w = Idle /\ r = Idle /\ wire = <<>> /\ got = <<>> /\ parts \in Nat
  BY StreamAssumption DEF Init, StreamInit
<1>2. Idle \in WriteRecord /\ Idle \in ReadRecord /\ Idle.op = "idle"
  BY DEF Idle, WriteRecord, ReadRecord, WriteOps, ReadOps, Outs
<1>3. WriteInv
  <2>1. wire \in Seq(Int) /\ Plain(wire) /\ OneRequestOnWire
    BY <1>1 DEF Plain, OneRequestOnWire
  <2> QED
    BY <1>1, <1>2, <2>1 DEF Init, StreamInit, WriteInv, Opening
<1>4. ReadInv
  BY <1>1, <1>2 DEF Init, StreamInit, ReadInv, OneResponseRead
<1>5. LinkInv
  BY DEF Init, StreamInit, LinkInv
<1> QED
  BY <1>3, <1>4, <1>5 DEF Inv

(* A step that changes nothing. *)
LEMMA SameInv ==
  ASSUME Inv, UNCHANGED streamVars
  PROVE  Inv'
  BY WriteFrame, ReadFrame DEF Inv, LinkInv, streamVars, config, conn

(* A step of the strand keeps the invariant. *)
LEMMA StrandKeeps ==
  ASSUME Inv, StreamStrand
  PROVE  Inv'
  BY StartKeeps, ConnectedKeeps, HeaderKeeps, WriteKeeps, FinishKeeps,
     BodyKeeps, ReadHeadKeeps, HeadReadKeeps, ReadSomeKeeps, PartReadKeeps
  DEF StreamStrand

(* Every step keeps the invariant, but one that starts a second exchange. *)
LEMMA StepInv == Inv /\ [Next]_streamVars /\ ~restarted' => Inv'
<1> SUFFICES ASSUME Inv, [Next]_streamVars, ~restarted' PROVE Inv'
  OBVIOUS
<1>1. CASE StreamStrand
  BY <1>1, StrandKeeps
<1>2. CASE StreamNetwork
  BY <1>2, NetworkKeeps
<1>3. CASE Cancel
  BY <1>3, CancelKeeps
<1>4. CASE Call
  BY <1>4, CallKeeps
<1>5. CASE ReturnWrite \/ ReturnRead
  BY <1>5, ReturnKeeps
<1>6. CASE UNCHANGED streamVars
  BY <1>6, SameInv
<1> QED
  BY <1>1, <1>2, <1>3, <1>4, <1>5, <1>6 DEF Next

-----------------------------------------------------------------------------
(* The types, which hold also when the application starts again. *)
StreamTypes ==
  /\ w \in WriteRecord /\ r \in ReadRecord
  /\ wire \in Seq(Int) /\ got \in Seq(Int)
  /\ started \in BOOLEAN /\ requestFinished \in BOOLEAN
  /\ parser \in {"none", "head", "body", "done"}
  /\ LinkInv

(* The types of the request direction. *)
LEMMA WriteTyped ==
  ASSUME StreamTypes,
         \/ StartOnExecutor \/ Connected \/ HeaderWritten \/ WriteOnExecutor
         \/ FinishOnExecutor \/ BodyWritten
  PROVE  StreamTypes'
<1>1. /\ w \in WriteRecord /\ r \in ReadRecord /\ w.out \in Outs /\ w.arg \in Int
      /\ wire \in Seq(Int) /\ LinkInv
  BY DEF StreamTypes, WriteRecord
<1>2. r' \in ReadRecord
  <2>1. Aborted(r) \in ReadRecord
    BY <1>1 DEF Aborted, ReadRecord, Outs
  <2> QED
    BY <1>1, <2>1 DEF StartOnExecutor, Connected, HeaderWritten,
       WriteOnExecutor, FinishOnExecutor, BodyWritten
<1>3. w' \in WriteRecord
  <2>1. \A o \in WriteOps, a \in Int : Begin(o, a) \in WriteRecord
    BY BeginFacts
  <2>2. \A out \in Outs : Answer(out) \in WriteRecord
    BY AnswerFacts
  <2>3. {"resolve", "connect", "tls", "header"} \subseteq WriteOps
    BY DEF WriteOps
  <2>4. CASE Connected
    BY <2>1, <2>2, <2>3, <2>4, OutsFacts, OpFacts DEF Connected, NextStep
  <2> QED
    BY <1>1, <2>1, <2>2, <2>3, <2>4, OutsFacts, OpFacts DEF StartOnExecutor,
       HeaderWritten, WriteOnExecutor, FinishOnExecutor, BodyWritten
<1>4. wire' \in Seq(Int)
  <2>1. \A p \in Int : Append(wire, p) \in Seq(Int)
    BY <1>1, AppendFacts
  <2>2. Head0 \in Int /\ End \in Int /\ <<>> \in Seq(Int)
    BY DEF Head0, End
  <2> QED
    BY <1>1, <2>1, <2>2 DEF StartOnExecutor, Connected, HeaderWritten,
       WriteOnExecutor, FinishOnExecutor, BodyWritten
<1>5. LinkInv'
  BY <1>1 DEF LinkInv, StartOnExecutor, Connected, HeaderWritten,
     WriteOnExecutor, FinishOnExecutor, BodyWritten, config, conn
<1>6. started' \in BOOLEAN /\ requestFinished' \in BOOLEAN
  BY DEF StreamTypes, StartOnExecutor, Connected, HeaderWritten, StartedAfter,
     WriteOnExecutor, FinishOnExecutor, BodyWritten, MayWrite, conn
<1>7. got' = got /\ parser' = parser
  BY DEF StartOnExecutor, Connected, HeaderWritten, WriteOnExecutor,
     FinishOnExecutor, BodyWritten, conn
<1> QED
  BY <1>2, <1>3, <1>4, <1>5, <1>6, <1>7 DEF StreamTypes

(* The types of the response direction. *)
LEMMA ReadTyped ==
  ASSUME StreamTypes,
         ReadHeadOnExecutor \/ HeadRead \/ ReadOnExecutor \/ PartRead
  PROVE  StreamTypes'
<1>1. /\ r \in ReadRecord /\ r.arg \in Int /\ got \in Seq(Int)
      /\ Len(got) \in Int /\ LinkInv
  BY DEF StreamTypes, ReadRecord
<1>2. UNCHANGED <<w, wire, started, requestFinished>> /\ LinkInv'
  BY <1>1 DEF ReadHeadOnExecutor, HeadRead, ReadOnExecutor, PartRead, conn,
     config, LinkInv
<1>3. r' \in ReadRecord
  <2>1. \A o \in ReadOps, a \in Int : Begin(o, a) \in ReadRecord
    BY BeginFacts
  <2>2. \A out \in Outs : Answer(out) \in ReadRecord
    BY AnswerFacts
  <2>3. \A out \in Outs : [Answer(out) EXCEPT !.arg = r.arg] \in ReadRecord
    BY <1>1 DEF Answer, ReadRecord, ReadOps
  <2>4. CASE PartRead
    BY <2>2, <2>3, <2>4, OutsFacts DEF PartRead
  <2> QED
    BY <1>1, <2>1, <2>2, <2>4, OutsFacts, OpFacts DEF ReadHeadOnExecutor,
       HeadRead, ReadOnExecutor, Part
<1>4. got' \in Seq(Int)
  <2>1. \A p \in Int : Append(got, p) \in Seq(Int)
    BY <1>1, AppendFacts
  <2>2. Head0 \in Int /\ Interim \in Int
    BY DEF Head0, Interim
  <2> QED
    BY <1>1, <2>1, <2>2 DEF ReadHeadOnExecutor, HeadRead, ReadOnExecutor,
       PartRead
<1>5. parser' \in {"none", "head", "body", "done"}
  BY DEF StreamTypes, ReadHeadOnExecutor, HeadRead, ReadOnExecutor, PartRead,
     conn
<1> QED
  BY <1>2, <1>3, <1>4, <1>5 DEF StreamTypes

(* The types after the network, cancel() and the application. *)
LEMMA OutsideTyped ==
  ASSUME StreamTypes,
         StreamNetwork \/ Cancel \/ Call \/ ReturnWrite \/ ReturnRead
  PROVE  StreamTypes'
<1>1. /\ w \in WriteRecord /\ r \in ReadRecord /\ Len(wire) \in Int
      /\ Idle \in WriteRecord /\ Idle \in ReadRecord
  BY DEF StreamTypes, Idle, WriteRecord, ReadRecord, WriteOps, ReadOps, Outs
<1>2. UNCHANGED <<wire, got, started, requestFinished, parser>>
  BY DEF StreamNetwork, FinishWrite, FinishRead, Cancel, Call, ReturnWrite,
     ReturnRead, conn
<1>3. w' \in WriteRecord /\ r' \in ReadRecord
  <2>1. \A how \in Outs : /\ [w EXCEPT !.out = how] \in WriteRecord
                         /\ [r EXCEPT !.out = how] \in ReadRecord
    BY <1>1 DEF WriteRecord, ReadRecord
  <2>2. /\ \A o \in WriteOps, a \in Int : Post(o, a) \in WriteRecord
        /\ \A o \in ReadOps, a \in Int : Post(o, a) \in ReadRecord
    BY BeginFacts
  <2>3. CASE StreamNetwork
    BY <1>1, <2>1, <2>3 DEF StreamNetwork, FinishWrite, FinishRead, Outs
  <2>4. CASE Cancel
    BY <1>1, <2>1, <2>4, OutsFacts DEF Cancel, Aborted
  <2>5. CASE Call
    BY <1>1, <2>2, <2>5, OpFacts DEF Call, AsyncStart, AsyncWrite, AsyncFinish,
       AsyncReadHead, AsyncRead
  <2>6. CASE ReturnWrite \/ ReturnRead
    BY <1>1, <2>6 DEF ReturnWrite, ReturnRead
  <2> QED
    BY <2>3, <2>4, <2>5, <2>6
<1>4. LinkInv'
  BY DEF StreamTypes, LinkInv, StreamNetwork, FinishWrite, FinishRead, Cancel,
     Call, ReturnWrite, ReturnRead, config, conn
<1> QED
  BY <1>2, <1>3, <1>4 DEF StreamTypes

(* Only the application restarts, and what it did stays done. *)
LEMMA RestartedStays == [Next]_streamVars /\ restarted => restarted'
  BY DEF Next, Call, ReturnWrite, ReturnRead, StreamStrand, StreamNetwork,
     StartOnExecutor, Connected, HeaderWritten, WriteOnExecutor,
     FinishOnExecutor, BodyWritten, ReadHeadOnExecutor, HeadRead,
     ReadOnExecutor, PartRead, FinishWrite, FinishRead, Cancel, config,
     streamVars

(* The types hold of every stream, and the parts above until the            *)
(* application starts again after a header was written.                     *)
StreamInv == StreamTypes /\ (~restarted => Inv)

(* Both hold of every stream, whatever the application calls. *)
THEOREM Invariance == Spec => []StreamInv
<1>1. Init => StreamInv
  <2>1. Inv => StreamTypes
    BY DEF StreamTypes, Inv, WriteInv, ReadInv
  <2> QED
    BY <2>1, InitInv DEF StreamInv
<1>2. StreamInv /\ [Next]_streamVars => StreamInv'
  <2>1. StreamTypes /\ UNCHANGED streamVars => StreamTypes'
    BY DEF StreamTypes, LinkInv, streamVars, config, conn
  <2>2. StreamTypes /\ [Next]_streamVars => StreamTypes'
    BY <2>1, WriteTyped, ReadTyped, OutsideTyped DEF Next, StreamStrand
  <2> QED
    BY <2>2, StepInv, RestartedStays DEF StreamInv
<1> QED
  BY <1>1, <1>2, PTL DEF Spec

(* What the types are to the run. *)
LEMMA TypesFacts == StreamTypes => TypeOK
  BY DEF StreamTypes, LinkInv, TypeOK, Ops, WriteRecord, ReadRecord, WriteOps,
     ReadOps, Outs

(* The parts above are what the run checks. *)
LEMMA InvExchange == Inv => OneExchange
<1>1. Inv => StreamTypes
  BY DEF StreamTypes, Inv, WriteInv, ReadInv
<1> QED
  BY <1>1, TypesFacts DEF Inv, WriteInv, ReadInv, OneExchange

(* An HttpClientStream is one exchange: calls that come too early, too late *)
(* or after cancel(), and a start that is tried again after one that        *)
(* failed, neither repeat the header nor write beyond the end, and no part  *)
(* of the response is read twice or left out.  Excepted is an application   *)
(* that starts again after a header was written.                            *)
THEOREM ExchangeCorrect == Spec => []OneExchange
<1>1. StreamInv => OneExchange
  BY TypesFacts DEF StreamInv, Inv, WriteInv, ReadInv, OneExchange
<1> QED
  BY Invariance, <1>1, PTL


-----------------------------------------------------------------------------
(* The proxy session.  It has one operation in progress, `at`, and that     *)
(* says how far each of the three streams is.                               *)
Nothing == parser = "none" /\ down = <<>>

(* The whole request was given to the upstream. *)
RequestSent ==
  /\ w = Idle /\ started /\ requestFinished /\ inRead = inTotal
  /\ Len(wire) <= inRead + 2

InNew ==
  /\ w = Idle /\ r = Idle /\ Nothing
  /\ ~started /\ ~requestFinished /\ wire = <<>> /\ inRead = 0

InStart ==
  /\ r = Idle /\ Nothing /\ ~requestFinished /\ inRead = 0
  /\ w.op \in Opening \cup {"answer"} /\ Len(wire) <= 1
  /\ w.op = "answer" /\ w.out = "ok" => started /\ Len(wire) = 1

InRead ==
  /\ w = Idle /\ r = Idle /\ Nothing /\ MayWrite /\ Len(wire) = inRead + 1

InWrite ==
  /\ r = Idle /\ Nothing /\ MayWrite
  /\ w.op \in {"write", "body", "answer"}
  /\ Len(wire) \in {inRead, inRead + 1}
  /\ w.op \in {"write", "body"} => Len(wire) = inRead
  /\ w.op = "answer" /\ w.out = "ok" => Len(wire) = inRead + 1
  /\ last => inRead = inTotal

InFinish ==
  /\ r = Idle /\ Nothing /\ started /\ inRead = inTotal
  /\ w.op \in {"finish", "end", "answer"}
  /\ w.op = "finish" => ~requestFinished
  /\ w.op \in {"finish", "end"} => Len(wire) = inRead + 1
  /\ Len(wire) <= inRead + 2
  /\ w.op = "answer" => requestFinished

InHead ==
  /\ RequestSent /\ down = <<>> /\ r.op \in {"readHead", "head", "answer"}
  /\ r.op = "answer" /\ r.out = "ok" =>
       parser \in {"body", "done"} /\ got = <<Head0>>

InDownStart ==
  /\ RequestSent /\ down = <<>> /\ r = Idle
  /\ parser \in {"body", "done"} /\ got = <<Head0>>

(* What was read is what was written downstream, and the part at hand. *)
InPart ==
  /\ RequestSent /\ parser \in {"body", "done"}
  /\ r.op \in {"readSome", "part", "answer"}
  /\ r.op # "answer" \/ r.arg = 0 => down = got
  /\ r.op = "answer" /\ r.arg # 0 => r.arg > 0 /\ got = Append(down, r.arg)
  /\ r.op = "answer" /\ r.out = "done" => parser = "done"

InDownWrite ==
  /\ RequestSent /\ r = Idle /\ parser \in {"body", "done"}
  /\ got = Append(down, responseBuffer)
  /\ last => parser = "done"

InDownFinish ==
  /\ RequestSent /\ r = Idle /\ parser = "done" /\ down = got

InOver ==
  /\ w = Idle /\ r = Idle /\ Len(wire) <= inRead + 2
  /\ result = "ok" =>
       /\ requestFinished /\ inRead = inTotal /\ parser = "done"
       /\ down = Append(got, End)
  /\ FailureCancelsAll

ProxyPlaces == {"new", "upStart", "inRead", "upWrite", "upFinish", "upHead",
                "downStart", "upRead", "downWrite", "downFinish", "over"}

ProxyTypes ==
  /\ at \in ProxyPlaces
  /\ inTotal \in Nat /\ inRead \in Nat /\ inRead <= inTotal
  /\ last \in BOOLEAN /\ responseBuffer \in Int /\ down \in Seq(Int)
  /\ result \in {"none", "ok", "error"} /\ (result = "none" <=> at # "over")

(* What is written downstream was read before, up to the end. *)
Downwards(d, g) ==
  \A i \in 1..Len(d) :
    \/ i <= Len(g) /\ d[i] = g[i]
    \/ i = Len(d) /\ d[i] = End

Heads ==
  /\ named \subseteq EndToEnd
  /\ EndToEnd \subseteq head /\ head \subseteq EndToEnd \cup HopByHop
  /\ at # "new" => forwarded = FilterHopByHop(head, named)

ProxyInv ==
  /\ Inv /\ ProxyTypes /\ Heads /\ Downwards(down, got)
  /\ at = "new" => InNew
  /\ at = "upStart" => InStart
  /\ at = "inRead" => InRead
  /\ at = "upWrite" => InWrite
  /\ at = "upFinish" => InFinish
  /\ at = "upHead" => InHead
  /\ at = "downStart" => InDownStart
  /\ at = "upRead" => InPart
  /\ at = "downWrite" => InDownWrite
  /\ at = "downFinish" => InDownFinish
  /\ at = "over" => InOver


(* ProxyInv holds in the next state once the place that is reached is as    *)
(* described.                                                               *)
LEMMA ProxyArrives ==
  ASSUME Inv', ProxyTypes', Heads', Downwards(down, got)',
         \/ at' = "new" /\ InNew'
         \/ at' = "upStart" /\ InStart'
         \/ at' = "inRead" /\ InRead'
         \/ at' = "upWrite" /\ InWrite'
         \/ at' = "upFinish" /\ InFinish'
         \/ at' = "upHead" /\ InHead'
         \/ at' = "downStart" /\ InDownStart'
         \/ at' = "upRead" /\ InPart'
         \/ at' = "downWrite" /\ InDownWrite'
         \/ at' = "downFinish" /\ InDownFinish'
         \/ at' = "over" /\ InOver'
  PROVE  ProxyInv'
BY DEF ProxyInv

(* The operation in progress tells where the proxy is. *)
LEMMA PlaceFacts ==
  ASSUME ProxyInv
  PROVE  /\ w.op \in Opening => at = "upStart"
         /\ w.op \in {"write", "body"} => at = "upWrite"
         /\ w.op \in {"finish", "end"} => at = "upFinish"
         /\ r.op \in {"readHead", "head"} => at = "upHead"
         /\ r.op \in {"readSome", "part"} => at = "upRead"
<1>0. Idle.op = "idle"
  BY DEF Idle
<1>1. at \in ProxyPlaces
  BY DEF ProxyInv, ProxyTypes
<1>2. CASE at = "new"
  BY <1>0, <1>2 DEF ProxyInv, InNew, Opening
<1>3. CASE at = "upStart"
  BY <1>0, <1>3 DEF ProxyInv, InStart, Opening
<1>4. CASE at = "inRead"
  BY <1>0, <1>4 DEF ProxyInv, InRead, Opening
<1>5. CASE at = "upWrite"
  BY <1>0, <1>5 DEF ProxyInv, InWrite, Opening
<1>6. CASE at = "upFinish"
  BY <1>0, <1>6 DEF ProxyInv, InFinish, Opening
<1>7. CASE at = "upHead"
  BY <1>0, <1>7 DEF ProxyInv, InHead, RequestSent, Opening
<1>8. CASE at = "downStart"
  BY <1>0, <1>8 DEF ProxyInv, InDownStart, RequestSent, Opening
<1>9. CASE at = "upRead"
  BY <1>0, <1>9 DEF ProxyInv, InPart, RequestSent, Opening
<1>10. CASE at = "downWrite"
  BY <1>0, <1>10 DEF ProxyInv, InDownWrite, RequestSent, Opening
<1>11. CASE at = "downFinish"
  BY <1>0, <1>11 DEF ProxyInv, InDownFinish, RequestSent, Opening
<1>12. CASE at = "over"
  BY <1>0, <1>12 DEF ProxyInv, InOver, Opening
<1> QED
  BY <1>1, <1>2, <1>3, <1>4, <1>5, <1>6, <1>7, <1>8, <1>9, <1>10, <1>11, <1>12
  DEF ProxyPlaces

(* What holds at every place about the numbers of pieces. *)
LEMMA ProxyNumbers ==
  ASSUME ProxyInv
  PROVE  /\ Len(wire) \in Nat /\ inRead \in Nat /\ inTotal \in Nat
         /\ inRead <= inTotal /\ wire \in Seq(Int) /\ got \in Seq(Int)
         /\ down \in Seq(Int) /\ Len(wire) <= inRead + 2
<1>1. /\ Len(wire) \in Nat /\ inRead \in Nat /\ inTotal \in Nat
      /\ inRead <= inTotal /\ wire \in Seq(Int) /\ got \in Seq(Int)
      /\ down \in Seq(Int) /\ at \in ProxyPlaces
  BY DEF ProxyInv, ProxyTypes, Inv, WriteInv, ReadInv
<1>2. CASE at = "new"
  BY <1>1, <1>2 DEF ProxyInv, InNew
<1>3. CASE at = "upStart"
  BY <1>1, <1>3 DEF ProxyInv, InStart
<1>4. CASE at = "inRead"
  BY <1>1, <1>4 DEF ProxyInv, InRead
<1>5. CASE at = "upWrite"
  BY <1>1, <1>5 DEF ProxyInv, InWrite
<1>6. CASE at = "upFinish"
  BY <1>1, <1>6 DEF ProxyInv, InFinish
<1>7. CASE at \in {"upHead", "downStart", "upRead", "downWrite", "downFinish"}
  <2>1. RequestSent
    BY <1>7 DEF ProxyInv, InHead, InDownStart, InPart, InDownWrite, InDownFinish
  <2> QED  BY <1>1, <2>1 DEF RequestSent
<1>8. CASE at = "over"
  BY <1>1, <1>8 DEF ProxyInv, InOver
<1> QED
  BY <1>1, <1>2, <1>3, <1>4, <1>5, <1>6, <1>7, <1>8 DEF ProxyPlaces

(* The callbacks of the proxy make no call that the stream does not expect. *)
LEMMA PumpKeeps ==
  ASSUME Inv, Rest, link' \in {link, "closed"}, cancelled' \in BOOLEAN,
         \/ w' = Idle
         \/ w' = Post("start", 0) /\ ~started
         \/ w' = Post("write", Len(wire))
         \/ w' = Post("finish", 0),
         \/ r' = Idle
         \/ r' = Post("readHead", 0) /\ parser = "none"
         \/ r' = Post("readSome", 0) /\ parser # "head"
  PROVE  Inv'
<1>1. /\ UNCHANGED <<wire, started, requestFinished>>
      /\ UNCHANGED <<got, parts, parser>>
      /\ UNCHANGED <<useTls, made, restarted>>
  BY DEF Rest, config
<1>2. /\ Idle.op = "idle" /\ Idle \in WriteRecord /\ Idle \in ReadRecord
  BY DEF Idle, WriteRecord, ReadRecord, WriteOps, ReadOps, Outs
<1>3. Len(wire) \in Int
  BY DEF Inv, WriteInv
<1>4. /\ \A o \in WriteOps : \A a \in Int :
           Post(o, a) \in WriteRecord /\ Post(o, a).op = o /\ Post(o, a).arg = a
      /\ \A o \in ReadOps : \A a \in Int :
           Post(o, a) \in ReadRecord /\ Post(o, a).op = o /\ Post(o, a).arg = a
  BY DEF Post, WriteRecord, ReadRecord, Outs
<1>5. WriteInv'
  <2>1. CASE w' = Idle
    BY <1>1, <1>2, <2>1, WriteQuiet DEF Inv
  <2>2. CASE w' = Post("start", 0) /\ ~started
    <3>1. w' \in WriteRecord /\ w'.op \in Opening
      BY <1>4, <2>2, OpFacts DEF Opening
    <3> QED  BY <1>1, <2>2, <3>1, WriteQuiet DEF Inv
  <2>3. CASE w' = Post("write", Len(wire))
    <3>1. w' \in WriteRecord /\ w'.op = "write" /\ w'.arg = Len(wire)
      BY <1>3, <1>4, <2>3, OpFacts
    <3> QED  BY <1>1, <3>1, WriteQuiet DEF Inv
  <2>4. CASE w' = Post("finish", 0)
    <3>1. w' \in WriteRecord /\ w'.op = "finish"
      BY <1>4, <2>4, OpFacts
    <3> QED  BY <1>1, <3>1, WriteQuiet DEF Inv
  <2> QED  BY <2>1, <2>2, <2>3, <2>4
<1>6. ReadInv'
  <2>1. CASE r' = Idle
    BY <1>1, <1>2, <2>1, ReadQuiet DEF Inv
  <2>2. CASE r' = Post("readHead", 0) /\ parser = "none"
    <3>1. r' \in ReadRecord /\ r'.op = "readHead"
      BY <1>4, <2>2, OpFacts
    <3> QED  BY <1>1, <2>2, <3>1, ReadQuiet DEF Inv
  <2>3. CASE r' = Post("readSome", 0) /\ parser # "head"
    <3>1. r' \in ReadRecord /\ r'.op = "readSome"
      BY <1>4, <2>3, OpFacts
    <3> QED  BY <1>1, <2>3, <3>1, ReadQuiet DEF Inv
  <2> QED  BY <2>1, <2>2, <2>3
<1>7. LinkInv'
  BY <1>1 DEF Inv, LinkInv
<1> QED  BY <1>5, <1>6, <1>7 DEF Inv

(* finish with an error, wherever the proxy is. *)
LEMMA FailedKeeps ==
  ASSUME ProxyInv, Finish(TRUE), Rest, at # "new",
         UNCHANGED <<inTotal, inRead, down, heads>>,
         last' \in BOOLEAN, responseBuffer' \in Int
  PROVE  ProxyInv'
<1>1. /\ at' = "over" /\ result' = "error" /\ w' = Idle /\ r' = Idle
      /\ inCancelled' = TRUE /\ downCancelled' = TRUE /\ cancelled' = TRUE
      /\ link' = IF made THEN "closed" ELSE link
  BY DEF Finish, CancelsOthers
<1>2. UNCHANGED <<wire, got, made>>
  BY DEF Rest
<1>3. Inv'
  BY <1>1, PumpKeeps DEF ProxyInv
<1>4. ProxyTypes'
  BY <1>1 DEF ProxyInv, ProxyTypes, ProxyPlaces
<1>5. Heads'
  BY DEF ProxyInv, Heads, heads
<1>6. Downwards(down, got)'
  BY <1>2 DEF ProxyInv
<1>7. FailureCancelsAll'
  BY <1>1, <1>2 DEF FailureCancelsAll
<1>8. InOver'
  BY <1>1, <1>2, <1>7, ProxyNumbers DEF InOver
<1> QED  BY <1>1, <1>3, <1>4, <1>5, <1>6, <1>8, ProxyArrives


(* A step of the pump that goes on. *)
LEMMA GoesFacts ==
  ASSUME ProxyInv, NEW op, Goes(op), op \in ProxyPlaces \ {"new", "over"},
         Rest, at # "over"
  PROVE  /\ at' = op /\ link' = link /\ cancelled' \in BOOLEAN
         /\ result' = result /\ result = "none"
         /\ UNCHANGED <<wire, got, started, requestFinished, parser>>
  BY DEF Goes, Rest, ProxyInv, ProxyTypes, Inv, LinkInv

(* What the pump posts. *)
LEMMA UpstreamFacts ==
  ASSUME NEW op, NEW arg, Upstream(op, arg)
  PROVE  /\ op = "none" => w' = Idle /\ r' = Idle
         /\ op \in {"start", "write", "finish"} =>
              w' = Post(op, arg) /\ r' = Idle /\ w'.op = op
         /\ op \in {"readHead", "readSome"} =>
              w' = Idle /\ r' = Post(op, arg) /\ r'.op = op /\ r'.arg = arg
  BY DEF Upstream, Post

(* The head is filtered and the upstream is started. *)
LEMMA ProxyStartKeeps ==
  ASSUME ProxyInv, Start
  PROVE  ProxyInv'
<1>1. /\ at = "new" /\ Goes("upStart") /\ Upstream("start", 0) /\ Rest
      /\ forwarded' = FilterHopByHop(head, named)
      /\ UNCHANGED <<inTotal, inRead, down, last, responseBuffer, head, named>>
  BY DEF Start
<1>2. InNew
  BY <1>1 DEF ProxyInv
<1>3. /\ at' = "upStart" /\ link' = link /\ cancelled' \in BOOLEAN
      /\ result' = result /\ result = "none"
      /\ UNCHANGED <<wire, got, started, requestFinished, parser>>
  BY <1>1, GoesFacts DEF ProxyPlaces
<1>4. w' = Post("start", 0) /\ r' = Idle /\ w'.op = "start"
  BY <1>1, UpstreamFacts
<1>5. Inv'
  BY <1>1, <1>2, <1>3, <1>4, PumpKeeps DEF ProxyInv, InNew
<1>6. ProxyTypes'
  BY <1>1, <1>3 DEF ProxyInv, ProxyTypes, ProxyPlaces
<1>7. Heads'
  BY <1>1 DEF ProxyInv, Heads, FilterHopByHop
<1>8. Downwards(down, got)'
  BY <1>1, <1>3 DEF ProxyInv
<1>9. InStart'
  <2>1. Len(<<>>) = 0
    OBVIOUS
  <2>2. wire' = <<>> /\ Len(wire') <= 1
    BY <1>2, <1>3, <2>1 DEF InNew
  <2> QED  BY <1>1, <1>2, <1>3, <1>4, <2>2 DEF InNew, InStart, Nothing, Opening
<1> QED  BY <1>3, <1>5, <1>6, <1>7, <1>8, <1>9, ProxyArrives

(* What a step keeps that changes neither the inbound request, the head nor *)
(* what was written downstream.                                             *)
LEMMA GoesOn ==
  ASSUME ProxyInv, NEW op, Goes(op), op \in ProxyPlaces \ {"new", "over"},
         Rest, at \notin {"new", "over"}, UNCHANGED <<inTotal, down, heads>>,
         inRead' \in Nat, inRead' <= inTotal,
         last' \in BOOLEAN, responseBuffer' \in Int
  PROVE  ProxyTypes' /\ Heads' /\ Downwards(down, got)'
<1>1. /\ at' = op /\ result' = result /\ result = "none" /\ got' = got
  BY GoesFacts
<1>2. ProxyTypes'
  BY <1>1 DEF ProxyInv, ProxyTypes, ProxyPlaces
<1>3. Heads'
  BY <1>1 DEF ProxyInv, Heads, heads, FilterHopByHop
<1>4. Downwards(down, got)'
  BY <1>1 DEF ProxyInv
<1> QED  BY <1>2, <1>3, <1>4

(* The upstream is connected, or is not. *)
LEMMA StartedKeeps ==
  ASSUME ProxyInv, Started
  PROVE  ProxyInv'
<1>1. /\ at = "upStart" /\ w.op = "answer" /\ Rest
      /\ UNCHANGED <<inTotal, inRead, down, last, responseBuffer, heads>>
      /\ \/ w.out = "ok" /\ Goes("inRead") /\ Upstream("none", 0)
         \/ Finish(TRUE)
  BY DEF Started
<1>2. InStart /\ last \in BOOLEAN /\ responseBuffer \in Int
  BY <1>1 DEF ProxyInv, ProxyTypes
<1>3. CASE Finish(TRUE)
  BY <1>1, <1>2, <1>3, FailedKeeps
<1>4. CASE w.out = "ok" /\ Goes("inRead") /\ Upstream("none", 0)
  <2>1. /\ at' = "inRead" /\ link' = link /\ cancelled' \in BOOLEAN
        /\ UNCHANGED <<wire, got, started, requestFinished, parser>>
    BY <1>1, <1>4, GoesFacts DEF ProxyPlaces
  <2>2. w' = Idle /\ r' = Idle
    BY <1>4, UpstreamFacts
  <2>3. Inv'
    BY <1>1, <2>1, <2>2, PumpKeeps DEF ProxyInv
  <2>4. ProxyTypes' /\ Heads' /\ Downwards(down, got)'
    BY <1>1, <1>2, <1>4, GoesOn, ProxyNumbers DEF ProxyPlaces
  <2>5. InRead'
    BY <1>1, <1>2, <1>4, <2>1, <2>2 DEF InStart, InRead, Nothing, MayWrite
  <2> QED  BY <2>1, <2>3, <2>4, <2>5, ProxyArrives
<1> QED  BY <1>1, <1>3, <1>4

(* pump_request reads a piece, the end of the body, or an error. *)
LEMMA InboundKeeps ==
  ASSUME ProxyInv, InboundRead \/ InboundError
  PROVE  ProxyInv'
<1>1. /\ at = "inRead" /\ Rest
      /\ UNCHANGED <<inTotal, down, responseBuffer, heads>>
  BY DEF InboundRead, InboundError
<1>2. InRead /\ last \in BOOLEAN /\ responseBuffer \in Int
  BY <1>1 DEF ProxyInv, ProxyTypes
<1>3. CASE InboundError
  BY <1>1, <1>2, <1>3, FailedKeeps DEF InboundError
<1>4. CASE /\ inRead < inTotal /\ inRead' = inRead + 1
           /\ last' \in {FALSE, inRead' = inTotal}
           /\ Goes(AfterPiece) /\ Upstream("write", inRead')
  <2>0. /\ Goes("upWrite") /\ Upstream("write", inRead + 1)
        /\ inRead' = inRead + 1 /\ last' \in BOOLEAN /\ (last' => inRead' = inTotal)
    BY <1>4 DEF AfterPiece
  <2>1. /\ at' = "upWrite" /\ link' = link /\ cancelled' \in BOOLEAN
        /\ UNCHANGED <<wire, got, started, requestFinished, parser>>
    BY <1>1, <2>0, GoesFacts DEF ProxyPlaces
  <2>2. w' = Post("write", inRead + 1) /\ r' = Idle /\ w'.op = "write"
    BY <2>0, UpstreamFacts
  <2>3. Len(wire) = inRead + 1 /\ Len(wire) = inRead'
    BY <1>2, <2>0 DEF InRead
  <2>4. Inv'
    BY <1>1, <2>1, <2>2, <2>3, PumpKeeps DEF ProxyInv
  <2>5. inRead' \in Nat /\ inRead' <= inTotal
    BY <1>4, <2>0, ProxyNumbers
  <2>6. ProxyTypes' /\ Heads' /\ Downwards(down, got)'
    BY <1>1, <1>2, <2>0, <2>5, GoesOn DEF ProxyPlaces
  <2>7. InWrite'
    BY <1>1, <1>2, <2>0, <2>1, <2>2, <2>3 DEF InRead, InWrite, Nothing, MayWrite
  <2> QED  BY <2>1, <2>4, <2>6, <2>7, ProxyArrives
<1>5. CASE /\ inRead = inTotal /\ Goes("upFinish") /\ Upstream("finish", 0)
           /\ UNCHANGED <<inRead, last>>
  <2>1. /\ at' = "upFinish" /\ link' = link /\ cancelled' \in BOOLEAN
        /\ UNCHANGED <<wire, got, started, requestFinished, parser>>
    BY <1>1, <1>5, GoesFacts DEF ProxyPlaces
  <2>2. w' = Post("finish", 0) /\ r' = Idle /\ w'.op = "finish"
    BY <1>5, UpstreamFacts
  <2>3. Inv'
    BY <1>1, <2>1, <2>2, PumpKeeps DEF ProxyInv
  <2>4. ProxyTypes' /\ Heads' /\ Downwards(down, got)'
    BY <1>1, <1>2, <1>5, GoesOn, ProxyNumbers DEF ProxyPlaces
  <2>5. Len(wire') <= inRead' + 2 /\ Len(wire') = inRead' + 1
    BY <1>2, <1>5, <2>1, ProxyNumbers DEF InRead
  <2>6. InFinish'
    BY <1>1, <1>2, <1>5, <2>1, <2>2, <2>5
    DEF InRead, InFinish, Nothing, MayWrite
  <2> QED  BY <2>1, <2>3, <2>4, <2>6, ProxyArrives
<1> QED  BY <1>3, <1>4, <1>5 DEF InboundRead

(* A piece was written upstream: the next is read, or the request ends. *)
LEMMA WrittenKeeps ==
  ASSUME ProxyInv, UpstreamWritten
  PROVE  ProxyInv'
<1>1. /\ at = "upWrite" /\ w.op = "answer" /\ Rest
      /\ UNCHANGED <<inTotal, inRead, down, last, responseBuffer, heads>>
      /\ \/ /\ w.out = "ok" /\ Goes(NextRequestOp(last))
            /\ Upstream(IF NextRequestOp(last) = "upFinish" THEN "finish"
                        ELSE "none", 0)
         \/ Finish(TRUE)
  BY DEF UpstreamWritten
<1>2. InWrite /\ last \in BOOLEAN /\ responseBuffer \in Int
  BY <1>1 DEF ProxyInv, ProxyTypes
<1>3. CASE Finish(TRUE)
  BY <1>1, <1>2, <1>3, FailedKeeps
<1>4. CASE w.out = "ok" /\ ~last /\ Goes("inRead") /\ Upstream("none", 0)
  <2>1. /\ at' = "inRead" /\ link' = link /\ cancelled' \in BOOLEAN
        /\ UNCHANGED <<wire, got, started, requestFinished, parser>>
    BY <1>1, <1>4, GoesFacts DEF ProxyPlaces
  <2>2. w' = Idle /\ r' = Idle
    BY <1>4, UpstreamFacts
  <2>3. Inv'
    BY <1>1, <2>1, <2>2, PumpKeeps DEF ProxyInv
  <2>4. ProxyTypes' /\ Heads' /\ Downwards(down, got)'
    BY <1>1, <1>2, <1>4, GoesOn, ProxyNumbers DEF ProxyPlaces
  <2>5. InRead'
    BY <1>1, <1>2, <1>4, <2>1, <2>2 DEF InWrite, InRead, Nothing, MayWrite
  <2> QED  BY <2>1, <2>3, <2>4, <2>5, ProxyArrives
<1>5. CASE w.out = "ok" /\ last /\ Goes("upFinish") /\ Upstream("finish", 0)
  <2>1. /\ at' = "upFinish" /\ link' = link /\ cancelled' \in BOOLEAN
        /\ UNCHANGED <<wire, got, started, requestFinished, parser>>
    BY <1>1, <1>5, GoesFacts DEF ProxyPlaces
  <2>2. w' = Post("finish", 0) /\ r' = Idle /\ w'.op = "finish"
    BY <1>5, UpstreamFacts
  <2>3. Inv'
    BY <1>1, <2>1, <2>2, PumpKeeps DEF ProxyInv
  <2>4. ProxyTypes' /\ Heads' /\ Downwards(down, got)'
    BY <1>1, <1>2, <1>5, GoesOn, ProxyNumbers DEF ProxyPlaces
  <2>5. Len(wire') <= inRead' + 2 /\ Len(wire') = inRead' + 1
    BY <1>1, <1>2, <1>5, <2>1, ProxyNumbers DEF InWrite
  <2>6. InFinish'
    BY <1>1, <1>2, <1>5, <2>1, <2>2, <2>5
    DEF InWrite, InFinish, Nothing, MayWrite
  <2> QED  BY <2>1, <2>3, <2>4, <2>6, ProxyArrives
<1> QED  BY <1>1, <1>2, <1>3, <1>4, <1>5 DEF NextRequestOp

(* The request is finished, and the head of the response arrives. *)
LEMMA AskedKeeps ==
  ASSUME ProxyInv, RequestFinished \/ ResponseHead
  PROVE  ProxyInv'
<1>1. /\ Rest
      /\ UNCHANGED <<inTotal, inRead, down, last, responseBuffer, heads>>
  BY DEF RequestFinished, ResponseHead
<1>2. last \in BOOLEAN /\ responseBuffer \in Int
  BY DEF ProxyInv, ProxyTypes
<1>3. CASE RequestFinished
  <2>1. /\ at = "upFinish" /\ w.op = "answer"
        /\ \/ Goes("upHead") /\ Upstream("readHead", 0)
           \/ Finish(TRUE)
    BY <1>3 DEF RequestFinished
  <2>2. InFinish
    BY <2>1 DEF ProxyInv
  <2>3. CASE Finish(TRUE)
    BY <1>1, <1>2, <2>1, <2>3, FailedKeeps
  <2>4. CASE Goes("upHead") /\ Upstream("readHead", 0)
    <3>1. /\ at' = "upHead" /\ link' = link /\ cancelled' \in BOOLEAN
          /\ UNCHANGED <<wire, got, started, requestFinished, parser>>
      BY <1>1, <2>1, <2>4, GoesFacts DEF ProxyPlaces
    <3>2. w' = Idle /\ r' = Post("readHead", 0) /\ r'.op = "readHead"
      BY <2>4, UpstreamFacts
    <3>3. Inv'
      BY <1>1, <2>2, <3>1, <3>2, PumpKeeps DEF ProxyInv, InFinish, Nothing
    <3>4. ProxyTypes' /\ Heads' /\ Downwards(down, got)'
      BY <1>1, <1>2, <2>1, <2>4, GoesOn, ProxyNumbers DEF ProxyPlaces
    <3>5. InHead'
      BY <1>1, <2>1, <2>2, <3>1, <3>2 DEF InFinish, InHead, RequestSent, Nothing
    <3> QED  BY <3>1, <3>3, <3>4, <3>5, ProxyArrives
  <2> QED  BY <2>1, <2>3, <2>4
<1>4. CASE ResponseHead
  <2>1. /\ at = "upHead" /\ r.op = "answer"
        /\ \/ r.out = "ok" /\ Goes("downStart") /\ Upstream("none", 0)
           \/ Finish(TRUE)
    BY <1>4 DEF ResponseHead
  <2>2. InHead
    BY <2>1 DEF ProxyInv
  <2>3. CASE Finish(TRUE)
    BY <1>1, <1>2, <2>1, <2>3, FailedKeeps
  <2>4. CASE r.out = "ok" /\ Goes("downStart") /\ Upstream("none", 0)
    <3>1. /\ at' = "downStart" /\ link' = link /\ cancelled' \in BOOLEAN
          /\ UNCHANGED <<wire, got, started, requestFinished, parser>>
      BY <1>1, <2>1, <2>4, GoesFacts DEF ProxyPlaces
    <3>2. w' = Idle /\ r' = Idle
      BY <2>4, UpstreamFacts
    <3>3. Inv'
      BY <1>1, <3>1, <3>2, PumpKeeps DEF ProxyInv
    <3>4. ProxyTypes' /\ Heads' /\ Downwards(down, got)'
      BY <1>1, <1>2, <2>1, <2>4, GoesOn, ProxyNumbers DEF ProxyPlaces
    <3>5. InDownStart'
      BY <1>1, <2>1, <2>2, <2>4, <3>1, <3>2 DEF InHead, InDownStart, RequestSent
    <3> QED  BY <3>1, <3>3, <3>4, <3>5, ProxyArrives
  <2> QED  BY <2>1, <2>3, <2>4
<1> QED  BY <1>3, <1>4


(* pump_response got a part, the end, or an error. *)
LEMMA PartKeeps ==
  ASSUME ProxyInv, ResponsePart
  PROVE  ProxyInv'
<1>1. /\ at = "upRead" /\ r.op = "answer" /\ Rest
      /\ UNCHANGED <<inTotal, inRead, down, heads>>
      /\ last' = (r.out = "done")
      /\ responseBuffer' = IF r.arg > 0 THEN r.arg ELSE responseBuffer
  BY DEF ResponsePart
<1>2. InPart /\ responseBuffer \in Int
  BY <1>1 DEF ProxyInv, ProxyTypes
<1>3. r.arg \in Int
  BY DEF ProxyInv, Inv, ReadInv, ReadRecord
<1>4. last' \in BOOLEAN /\ responseBuffer' \in Int
  BY <1>1, <1>2, <1>3
<1>5. CASE Finish(TRUE)
  BY <1>1, <1>4, <1>5, FailedKeeps
<1>6. CASE r.arg > 0 /\ Goes("downWrite") /\ Upstream("none", 0)
  <2>1. /\ at' = "downWrite" /\ link' = link /\ cancelled' \in BOOLEAN
        /\ UNCHANGED <<wire, got, started, requestFinished, parser>>
    BY <1>1, <1>6, GoesFacts DEF ProxyPlaces
  <2>2. w' = Idle /\ r' = Idle
    BY <1>6, UpstreamFacts
  <2>3. Inv'
    BY <1>1, <2>1, <2>2, PumpKeeps DEF ProxyInv
  <2>4. ProxyTypes' /\ Heads' /\ Downwards(down, got)'
    BY <1>1, <1>4, <1>6, GoesOn, ProxyNumbers DEF ProxyPlaces
  <2>5. r.arg # 0 /\ responseBuffer' = r.arg
    BY <1>1, <1>3, <1>6
  <2>6. InDownWrite'
    BY <1>1, <1>2, <2>1, <2>2, <2>5 DEF InPart, InDownWrite, RequestSent
  <2> QED  BY <2>1, <2>3, <2>4, <2>6, ProxyArrives
<1>7. CASE r.arg = 0 /\ r.out = "done" /\ Goes("downFinish") /\ Upstream("none", 0)
  <2>1. /\ at' = "downFinish" /\ link' = link /\ cancelled' \in BOOLEAN
        /\ UNCHANGED <<wire, got, started, requestFinished, parser>>
    BY <1>1, <1>7, GoesFacts DEF ProxyPlaces
  <2>2. w' = Idle /\ r' = Idle
    BY <1>7, UpstreamFacts
  <2>3. Inv'
    BY <1>1, <2>1, <2>2, PumpKeeps DEF ProxyInv
  <2>4. ProxyTypes' /\ Heads' /\ Downwards(down, got)'
    BY <1>1, <1>4, <1>7, GoesOn, ProxyNumbers DEF ProxyPlaces
  <2>5. InDownFinish'
    BY <1>1, <1>2, <1>7, <2>1, <2>2 DEF InPart, InDownFinish, RequestSent
  <2> QED  BY <2>1, <2>3, <2>4, <2>5, ProxyArrives
<1>8. CASE r.arg = 0 /\ Goes("upRead") /\ Upstream("readSome", 0)
  <2>1. /\ at' = "upRead" /\ link' = link /\ cancelled' \in BOOLEAN
        /\ UNCHANGED <<wire, got, started, requestFinished, parser>>
    BY <1>1, <1>8, GoesFacts DEF ProxyPlaces
  <2>2. w' = Idle /\ r' = Post("readSome", 0) /\ r'.op = "readSome"
    BY <1>8, UpstreamFacts
  <2>3. Inv'
    BY <1>1, <1>2, <2>1, <2>2, PumpKeeps DEF ProxyInv, InPart
  <2>4. ProxyTypes' /\ Heads' /\ Downwards(down, got)'
    BY <1>1, <1>4, <1>8, GoesOn, ProxyNumbers DEF ProxyPlaces
  <2>5. InPart'
    BY <1>1, <1>2, <1>8, <2>1, <2>2 DEF InPart, RequestSent
  <2> QED  BY <2>1, <2>3, <2>4, <2>5, ProxyArrives
<1>9. \/ Finish(TRUE)
      \/ r.arg > 0 /\ Goes("downWrite") /\ Upstream("none", 0)
      \/ /\ r.out # "error" /\ r.arg = 0 /\ Goes(NextResponseOp(last'))
         /\ Upstream(IF last' THEN "none" ELSE "readSome", 0)
  <2>1. r.arg >= 0
    BY <1>1, <1>2, <1>3 DEF InPart
  <2>2. r.arg > 0 \/ r.arg = 0
    BY <1>3, <2>1
  <2> QED  BY <2>2 DEF ResponsePart
<1> QED
  BY <1>1, <1>5, <1>6, <1>7, <1>8, <1>9 DEF NextResponseOp

(* What is appended downstream is the next piece that was read... *)
LEMMA DownwardsNext ==
  ASSUME NEW d \in Seq(Int), NEW p \in Int, NEW g, g = Append(d, p)
  PROVE  Downwards(g, g)
<1>1. g \in Seq(Int) /\ Len(g) \in Nat
  OBVIOUS
<1> QED  BY <1>1 DEF Downwards

(* ... or the end. *)
LEMMA DownwardsEnd ==
  ASSUME NEW g \in Seq(Int)
  PROVE  Downwards(Append(g, End), g)
<1>1. End \in Int
  BY DEF End
<1>2. PICK d : d = Append(g, End)
  OBVIOUS
<1>3. /\ Len(g) \in Nat /\ Len(d) = Len(g) + 1 /\ d[Len(g) + 1] = End
      /\ \A i \in 1..Len(g) : d[i] = g[i]
  BY <1>1, <1>2, AppendFacts
<1>4. \A i \in 1..(Len(g) + 1) : i = Len(g) + 1 \/ (i \in 1..Len(g) /\ i <= Len(g))
  BY <1>3
<1>5. Downwards(d, g)
  BY <1>3, <1>4 DEF Downwards
<1> QED  BY <1>2, <1>5

(* The downstream response stream starts, takes a part, or ends. *)
LEMMA DownstreamKeeps ==
  ASSUME ProxyInv, Downstream \/ DownstreamError
  PROVE  ProxyInv'
<1>1. /\ at \in {"downStart", "downWrite", "downFinish"} /\ Rest
      /\ UNCHANGED <<inTotal, inRead, last, responseBuffer, heads>>
  BY DEF Downstream, DownstreamError
<1>2. /\ last \in BOOLEAN /\ responseBuffer \in Int /\ result = "none"
      /\ down \in Seq(Int) /\ got \in Seq(Int) /\ inRead \in Nat
      /\ inTotal \in Nat /\ inRead <= inTotal
  BY <1>1 DEF ProxyInv, ProxyTypes, Inv, ReadInv
<1>3. CASE DownstreamError
  BY <1>1, <1>2, <1>3, FailedKeeps DEF DownstreamError
<1>4. ASSUME NEW op \in ProxyPlaces \ {"new", "over"}, Goes(op),
             down' \in Seq(Int), Downwards(down', got), Inv',
             \/ op = "upRead" /\ InPart'
             \/ op = "downFinish" /\ InDownFinish'
      PROVE  ProxyInv'
  <2>1. /\ at' = op /\ result' = result /\ got' = got
    BY <1>1, <1>4, GoesFacts
  <2>2. ProxyTypes'
    BY <1>1, <1>2, <1>4, <2>1 DEF ProxyTypes, ProxyPlaces
  <2>3. Heads'
    BY <1>1, <1>4, <2>1 DEF ProxyInv, Heads, heads, FilterHopByHop
  <2> QED  BY <1>4, <2>1, <2>2, <2>3, ProxyArrives
<1>5. CASE /\ at = "downStart" /\ down' = Append(down, Head0)
           /\ Goes("upRead") /\ Upstream("readSome", 0)
  <2>1. /\ at' = "upRead" /\ link' = link /\ cancelled' \in BOOLEAN
        /\ UNCHANGED <<wire, got, started, requestFinished, parser>>
    BY <1>1, <1>5, GoesFacts DEF ProxyPlaces
  <2>2. w' = Idle /\ r' = Post("readSome", 0) /\ r'.op = "readSome"
    BY <1>5, UpstreamFacts
  <2>3. InDownStart
    BY <1>5 DEF ProxyInv
  <2>4. Inv'
    BY <1>1, <2>1, <2>2, <2>3, PumpKeeps DEF ProxyInv, InDownStart
  <2>5. down' = got /\ Head0 \in Int /\ down = <<>>
    BY <1>5, <2>3 DEF InDownStart, Head0
  <2>6. Downwards(down', got)
    BY <1>2, <1>5, <2>5, DownwardsNext
  <2>7. InPart'
    BY <1>1, <2>1, <2>2, <2>3, <2>5 DEF InDownStart, InPart, RequestSent
  <2> QED  BY <1>2, <1>4, <1>5, <2>4, <2>5, <2>6, <2>7 DEF ProxyPlaces
<1>6. ASSUME at = "downWrite", down' = Append(down, responseBuffer)
      PROVE  down' = got /\ Downwards(down', got) /\ down' \in Seq(Int)
  <2>1. InDownWrite
    BY <1>6 DEF ProxyInv
  <2>2. down' = got
    BY <1>6, <2>1 DEF InDownWrite
  <2> QED  BY <1>2, <1>6, <2>2, DownwardsNext
<1>7. CASE /\ at = "downWrite" /\ down' = Append(down, responseBuffer)
           /\ ~last /\ Goes("upRead") /\ Upstream("readSome", 0)
  <2>1. /\ at' = "upRead" /\ link' = link /\ cancelled' \in BOOLEAN
        /\ UNCHANGED <<wire, got, started, requestFinished, parser>>
    BY <1>1, <1>7, GoesFacts DEF ProxyPlaces
  <2>2. w' = Idle /\ r' = Post("readSome", 0) /\ r'.op = "readSome"
    BY <1>7, UpstreamFacts
  <2>3. InDownWrite
    BY <1>7 DEF ProxyInv
  <2>4. Inv'
    BY <1>1, <2>1, <2>2, <2>3, PumpKeeps DEF ProxyInv, InDownWrite
  <2>5. down' = got
    BY <1>6, <1>7
  <2>6. InPart'
    BY <1>1, <2>1, <2>2, <2>3, <2>5 DEF InDownWrite, InPart, RequestSent
  <2> QED  BY <1>4, <1>6, <1>7, <2>4, <2>6 DEF ProxyPlaces
<1>8. CASE /\ at = "downWrite" /\ down' = Append(down, responseBuffer)
           /\ last /\ Goes("downFinish") /\ Upstream("none", 0)
  <2>1. /\ at' = "downFinish" /\ link' = link /\ cancelled' \in BOOLEAN
        /\ UNCHANGED <<wire, got, started, requestFinished, parser>>
    BY <1>1, <1>8, GoesFacts DEF ProxyPlaces
  <2>2. w' = Idle /\ r' = Idle
    BY <1>8, UpstreamFacts
  <2>3. InDownWrite
    BY <1>8 DEF ProxyInv
  <2>4. Inv'
    BY <1>1, <2>1, <2>2, PumpKeeps DEF ProxyInv
  <2>5. down' = got
    BY <1>6, <1>8
  <2>6. InDownFinish'
    BY <1>1, <1>8, <2>1, <2>2, <2>3, <2>5
    DEF InDownWrite, InDownFinish, RequestSent
  <2> QED  BY <1>4, <1>6, <1>8, <2>4, <2>6 DEF ProxyPlaces
<1>9. CASE at = "downFinish" /\ down' = Append(down, End) /\ Finish(FALSE)
  <2>1. /\ at' = "over" /\ result' = "ok" /\ w' = Idle /\ r' = Idle
        /\ cancelled' = cancelled /\ link' = link
    BY <1>9 DEF Finish, CancelsOthers
  <2>2. UNCHANGED <<wire, got, started, requestFinished, parser>>
    BY <1>1 DEF Rest
  <2>3. InDownFinish
    BY <1>9 DEF ProxyInv
  <2>4. cancelled' \in BOOLEAN /\ Inv'
    BY <1>1, <2>1, PumpKeeps DEF ProxyInv, Inv, LinkInv
  <2>5. down' = Append(got, End) /\ down' \in Seq(Int)
    BY <1>2, <1>9, <2>3 DEF InDownFinish, End
  <2>6. Downwards(down, got)'
    BY <1>2, <2>2, <2>5, DownwardsEnd
  <2>7. ProxyTypes'
    BY <1>1, <1>2, <2>1, <2>5 DEF ProxyTypes, ProxyPlaces
  <2>8. Heads'
    BY <1>1, <1>9, <2>1 DEF ProxyInv, Heads, heads, FilterHopByHop
  <2>9. InOver'
    BY <1>1, <2>1, <2>2, <2>3, <2>5 DEF InDownFinish, InOver, RequestSent,
       FailureCancelsAll
  <2> QED  BY <2>1, <2>4, <2>6, <2>7, <2>8, <2>9, ProxyArrives
<1>10. CASE Downstream
  <2>1. CASE at = "downStart"
    BY <1>5, <1>10, <2>1 DEF Downstream
  <2>2. CASE at = "downWrite"
    <3>1. /\ down' = Append(down, responseBuffer) /\ Goes(NextResponseOp(last))
          /\ Upstream(IF NextResponseOp(last) = "upRead" THEN "readSome"
                      ELSE "none", 0)
      BY <1>10, <2>2 DEF Downstream
    <3> QED  BY <1>2, <1>7, <1>8, <2>2, <3>1 DEF NextResponseOp
  <2>3. CASE at = "downFinish"
    BY <1>9, <1>10, <2>3 DEF Downstream
  <2> QED  BY <1>1, <2>1, <2>2, <2>3
<1> QED  BY <1>3, <1>10


(* What the steps of the upstream leave of the proxy. *)
LEMMA ProxyRests ==
  ASSUME ProxyInv, UNCHANGED proxyVars
  PROVE  /\ UNCHANGED <<at, inTotal, inRead, down, inCancelled, downCancelled,
                        last, responseBuffer, result>>
         /\ ProxyTypes' /\ Heads'
<1>1. /\ UNCHANGED <<at, inTotal, inRead, down, inCancelled, downCancelled,
                     last, responseBuffer, result>>
      /\ UNCHANGED <<head, named, forwarded>>
  BY DEF proxyVars, ends, heads
<1>2. ProxyTypes'
  BY <1>1 DEF ProxyInv, ProxyTypes
<1>3. Heads'
  BY <1>1 DEF ProxyInv, Heads, FilterHopByHop
<1> QED  BY <1>1, <1>2, <1>3

(* Outcomes that reach operations in progress change no place. *)
LEMMA OutcomeKeeps ==
  ASSUME ProxyInv, at # "over", Inv', ProxyTypes', Heads',
         UNCHANGED <<at, inTotal, inRead, down, last, responseBuffer>>,
         UNCHANGED <<wire, got, started, requestFinished, parser>>,
         w'.op = w.op, w.op \in {"idle", "answer"} => w' = w,
         r'.op = r.op, r.op \in {"idle", "answer"} => r' = r
  PROVE  ProxyInv'
<1>0. Idle.op = "idle"
  BY DEF Idle
<1>1. at \in ProxyPlaces \ {"over"}
  BY DEF ProxyInv, ProxyTypes
<1>2. Downwards(down, got)'
  BY DEF ProxyInv
<1>3. /\ w = Idle => w' = Idle
      /\ r = Idle => r' = Idle
      /\ w.op = "answer" => w' = w
      /\ r.op = "answer" => r' = r
  BY <1>0
<1>4. RequestSent => RequestSent'
  BY <1>3 DEF RequestSent
<1>5. CASE at = "new"
  <2>1. InNew'
    BY <1>3, <1>5 DEF ProxyInv, InNew, Nothing
  <2> QED  BY <1>2, <1>5, <2>1, ProxyArrives
<1>6. CASE at = "upStart"
  <2>1. InStart'
    BY <1>3, <1>6 DEF ProxyInv, InStart, Nothing
  <2> QED  BY <1>2, <1>6, <2>1, ProxyArrives
<1>7. CASE at = "inRead"
  <2>1. InRead'
    BY <1>3, <1>7 DEF ProxyInv, InRead, Nothing, MayWrite
  <2> QED  BY <1>2, <1>7, <2>1, ProxyArrives
<1>8. CASE at = "upWrite"
  <2>1. InWrite'
    BY <1>3, <1>8 DEF ProxyInv, InWrite, Nothing, MayWrite
  <2> QED  BY <1>2, <1>8, <2>1, ProxyArrives
<1>9. CASE at = "upFinish"
  <2>1. InFinish'
    BY <1>3, <1>9 DEF ProxyInv, InFinish, Nothing
  <2> QED  BY <1>2, <1>9, <2>1, ProxyArrives
<1>10. CASE at = "upHead"
  <2>1. InHead'
    BY <1>3, <1>4, <1>10 DEF ProxyInv, InHead
  <2> QED  BY <1>2, <1>10, <2>1, ProxyArrives
<1>11. CASE at = "downStart"
  <2>1. InDownStart'
    BY <1>3, <1>4, <1>11 DEF ProxyInv, InDownStart
  <2> QED  BY <1>2, <1>11, <2>1, ProxyArrives
<1>12. CASE at = "upRead"
  <2>1. InPart'
    BY <1>3, <1>4, <1>12 DEF ProxyInv, InPart
  <2> QED  BY <1>2, <1>12, <2>1, ProxyArrives
<1>13. CASE at = "downWrite"
  <2>1. InDownWrite'
    BY <1>3, <1>4, <1>13 DEF ProxyInv, InDownWrite
  <2> QED  BY <1>2, <1>13, <2>1, ProxyArrives
<1>14. CASE at = "downFinish"
  <2>1. InDownFinish'
    BY <1>3, <1>4, <1>14 DEF ProxyInv, InDownFinish
  <2> QED  BY <1>2, <1>14, <2>1, ProxyArrives
<1> QED
  BY <1>1, <1>5, <1>6, <1>7, <1>8, <1>9, <1>10, <1>11, <1>12, <1>13, <1>14
  DEF ProxyPlaces

(* cancel(), while the proxy session runs, and what the network answers. *)
LEMMA AnsweredKeeps ==
  ASSUME ProxyInv, ProxyCancel \/ (StreamNetwork /\ UNCHANGED proxyVars)
  PROVE  ProxyInv'
<1>0. /\ w \in WriteRecord /\ r \in ReadRecord /\ Idle.op = "idle"
      /\ Network("idle") = {} /\ Network("answer") = {}
  BY DEF ProxyInv, Inv, WriteInv, ReadInv, Idle, Network
<1>1. CASE ProxyCancel
  <2>1. /\ Cancel /\ at # "over"
        /\ UNCHANGED <<at, inTotal, inRead, down, last, responseBuffer, result>>
        /\ UNCHANGED <<head, named, forwarded>>
    BY <1>1 DEF ProxyCancel, CancelAll, heads
  <2>2. Inv'
    BY <2>1, CancelKeeps DEF ProxyInv
  <2>3. ProxyTypes'
    BY <2>1 DEF ProxyInv, ProxyTypes
  <2>4. Heads'
    BY <2>1 DEF ProxyInv, Heads, FilterHopByHop
  <2>5. UNCHANGED <<wire, got, started, requestFinished, parser>>
    BY <2>1 DEF Cancel
  <2>6. /\ w'.op = w.op /\ (w.op \in {"idle", "answer"} => w' = w)
    BY <1>0, <2>1 DEF Cancel, Aborted, WriteRecord
  <2>7. /\ r'.op = r.op /\ (r.op \in {"idle", "answer"} => r' = r)
    BY <1>0, <2>1 DEF Cancel, Aborted, ReadRecord
  <2> QED  BY <2>1, <2>2, <2>3, <2>4, <2>5, <2>6, <2>7, OutcomeKeeps
<1>2. CASE StreamNetwork /\ UNCHANGED proxyVars
  <2>1. /\ UNCHANGED <<at, inTotal, inRead, down, last, responseBuffer>>
        /\ ProxyTypes' /\ Heads'
    BY <1>2, ProxyRests
  <2>2. Inv'
    BY <1>2, NetworkKeeps DEF ProxyInv
  <2>3. PICK how \in {"ok", "error", "final", "interim"} :
          FinishWrite(how) \/ FinishRead(how)
    BY <1>2 DEF StreamNetwork
  <2>4. UNCHANGED <<wire, got, started, requestFinished, parser>>
    BY <2>3 DEF FinishWrite, FinishRead, conn
  <2>5. /\ w'.op = w.op /\ (w.op \in {"idle", "answer"} => w' = w)
    BY <1>0, <2>3 DEF FinishWrite, FinishRead, WriteRecord
  <2>6. /\ r'.op = r.op /\ (r.op \in {"idle", "answer"} => r' = r)
    BY <1>0, <2>3 DEF FinishWrite, FinishRead, ReadRecord
  <2>7. at # "over"
    <3>1. w.op # "idle" \/ r.op # "idle"
      BY <1>0, <2>3 DEF FinishWrite, FinishRead
    <3> QED  BY <1>0, <3>1 DEF ProxyInv, InOver
  <2> QED  BY <2>1, <2>2, <2>4, <2>5, <2>6, <2>7, OutcomeKeeps
<1> QED  BY <1>1, <1>2

(* The steps of the request direction of the upstream. *)
LEMMA RequestStepKeeps ==
  ASSUME ProxyInv, UNCHANGED proxyVars, Inv',
         \/ StartOnExecutor \/ Connected \/ HeaderWritten \/ WriteOnExecutor
         \/ FinishOnExecutor \/ BodyWritten
  PROVE  ProxyInv'
<1>0. /\ UNCHANGED <<at, inTotal, inRead, down, last, responseBuffer>>
      /\ ProxyTypes' /\ Heads'
  BY ProxyRests
<1>1. /\ r' = r /\ got' = got /\ parser' = parser
  <2>1. CASE StartOnExecutor
    <3>1. w.op \in Opening
      BY <2>1 DEF StartOnExecutor, Opening
    <3>2. r = Idle
      BY <3>1, PlaceFacts DEF ProxyInv, InStart
    <3>3. Aborted(r) = r
      BY <3>2 DEF Aborted, Idle, Network
    <3> QED
      BY <2>1, <3>3 DEF StartOnExecutor
  <2> QED
    BY <2>1 DEF Connected, HeaderWritten, WriteOnExecutor, FinishOnExecutor,
       BodyWritten, conn
<1>2. Downwards(down, got)'
  BY <1>0, <1>1 DEF ProxyInv
<1>3. /\ Len(wire) \in Nat /\ inRead \in Nat /\ wire \in Seq(Int) /\ WriteInv
  BY ProxyNumbers DEF ProxyInv, Inv
<1>4. \A o, a : Begin(o, a).op = o
  BY DEF Begin
<1>5. \A o : Answer(o).op = "answer" /\ Answer(o).out = o
  BY DEF Answer
<1>6. CASE StartOnExecutor \/ Connected
  <2>1. /\ w.op \in Opening
        /\ UNCHANGED <<wire, started, requestFinished>>
    BY <1>3, <1>6 DEF StartOnExecutor, Connected, Opening, WriteInv
  <2>2. at = "upStart" /\ InStart
    BY <2>1, PlaceFacts DEF ProxyInv
  <2>3. w' = Answer("error") \/ \E o \in Opening : w' = Begin(o, 0)
    BY <1>6 DEF StartOnExecutor, Connected, NextStep, Opening
  <2>4. w'.op \in Opening \cup {"answer"} /\ (w'.op = "answer" => w'.out # "ok")
    BY <1>4, <1>5, <2>3 DEF Opening
  <2>5. InStart'
    BY <1>0, <1>1, <2>1, <2>2, <2>4 DEF InStart, Nothing
  <2> QED  BY <1>0, <1>2, <2>2, <2>5, ProxyArrives
<1>7. CASE HeaderWritten
  <2>1. /\ w.op = "header" /\ w' = Answer(w.out)
        /\ requestFinished' = requestFinished
        /\ started' = (w.out = "ok")
        /\ wire' = IF w.out = "ok" THEN Append(wire, Head0) ELSE wire
    BY <1>7 DEF HeaderWritten, StartedAfter
  <2>2. at = "upStart" /\ InStart
    BY <2>1, PlaceFacts DEF ProxyInv, Opening
  <2>3. wire = <<>>
    BY <1>3, <2>1 DEF WriteInv, Opening
  <2>4. Len(wire') <= 1 /\ (w.out = "ok" => Len(wire') = 1)
    BY <2>1, <2>3 DEF Head0
  <2>5. InStart'
    BY <1>0, <1>1, <1>5, <2>1, <2>2, <2>4 DEF InStart, Nothing
  <2> QED  BY <1>0, <1>2, <2>2, <2>5, ProxyArrives
<1>8. CASE WriteOnExecutor
  <2>1. /\ w.op = "write"
        /\ w' = (IF MayWrite THEN Begin("body", w.arg) ELSE Answer("error"))
        /\ UNCHANGED <<wire, started, requestFinished>>
    BY <1>8 DEF WriteOnExecutor, conn
  <2>2. at = "upWrite" /\ InWrite
    BY <2>1, PlaceFacts DEF ProxyInv
  <2>3. w'.op = "body"
    BY <1>4, <2>1, <2>2 DEF InWrite
  <2>4. InWrite'
    BY <1>0, <1>1, <2>1, <2>2, <2>3 DEF InWrite, Nothing, MayWrite
  <2> QED  BY <1>0, <1>2, <2>2, <2>4, ProxyArrives
<1>9. CASE FinishOnExecutor
  <2>1. /\ w.op = "finish" /\ UNCHANGED <<wire, started>>
        /\ requestFinished' = (requestFinished \/ MayWrite)
        /\ \/ w' = Answer("error") /\ ~MayWrite
           \/ w' = Answer("ok") \/ w' = Begin("end", 0)
    BY <1>9 DEF FinishOnExecutor
  <2>2. at = "upFinish" /\ InFinish
    BY <2>1, PlaceFacts DEF ProxyInv
  <2>3. MayWrite /\ requestFinished'
    BY <2>1, <2>2 DEF InFinish, MayWrite
  <2>4. w'.op \in {"answer", "end"}
    BY <1>4, <1>5, <2>1
  <2>5. InFinish'
    BY <1>0, <1>1, <2>1, <2>2, <2>3, <2>4 DEF InFinish, Nothing
  <2> QED  BY <1>0, <1>2, <2>2, <2>5, ProxyArrives
<1>10. CASE BodyWritten
  <2>1. /\ w.op \in {"body", "end"} /\ w' = Answer(w.out)
        /\ UNCHANGED <<started, requestFinished>>
        /\ wire' = IF w.out # "ok" THEN wire
                   ELSE Append(wire, IF w.op = "end" THEN End ELSE w.arg)
    BY <1>10 DEF BodyWritten, conn
  <2>2. w'.op = "answer" /\ w'.out = w.out
    BY <1>5, <2>1
  <2>3. /\ w.out = "ok" => Len(wire') = Len(wire) + 1
        /\ w.out # "ok" => Len(wire') = Len(wire)
    <3>1. w.arg \in Int /\ End \in Int
      BY <1>3 DEF WriteInv, WriteRecord, End
    <3> QED  BY <1>3, <2>1, <3>1
  <2>4. CASE w.op = "body"
    <3>1. at = "upWrite" /\ InWrite
      BY <2>4, PlaceFacts DEF ProxyInv
    <3>2. InWrite'
      BY <1>0, <1>1, <2>1, <2>2, <2>3, <2>4, <3>1 DEF InWrite, Nothing, MayWrite
    <3> QED  BY <1>0, <1>2, <3>1, <3>2, ProxyArrives
  <2>5. CASE w.op = "end"
    <3>1. at = "upFinish" /\ InFinish
      BY <2>5, PlaceFacts DEF ProxyInv
    <3>2. Len(wire') <= inRead + 2
      BY <1>3, <2>3, <2>5, <3>1 DEF InFinish
    <3>3. requestFinished
      BY <1>3, <2>5 DEF WriteInv
    <3>4. InFinish'
      BY <1>0, <1>1, <2>1, <2>2, <3>1, <3>2, <3>3 DEF InFinish, Nothing
    <3> QED  BY <1>0, <1>2, <3>1, <3>4, ProxyArrives
  <2> QED  BY <2>1, <2>4, <2>5
<1> QED  BY <1>6, <1>7, <1>8, <1>9, <1>10


(* The steps of the response direction of the upstream. *)
LEMMA ResponseStepKeeps ==
  ASSUME ProxyInv, UNCHANGED proxyVars, Inv',
         ReadHeadOnExecutor \/ HeadRead \/ ReadOnExecutor \/ PartRead
  PROVE  ProxyInv'
<1>0. /\ UNCHANGED <<at, inTotal, inRead, down, last, responseBuffer>>
      /\ ProxyTypes' /\ Heads'
  BY ProxyRests
<1>1. UNCHANGED <<w, wire, started, requestFinished>>
  BY DEF ReadHeadOnExecutor, HeadRead, ReadOnExecutor, PartRead, conn
<1>2. RequestSent => RequestSent'
  BY <1>0, <1>1 DEF RequestSent
<1>3. /\ got \in Seq(Int) /\ r \in ReadRecord /\ r.arg \in Int /\ ReadInv
      /\ Downwards(down, got)
  BY DEF ProxyInv, Inv, ReadInv, ReadRecord
<1>4. \A o, a : Begin(o, a).op = o
  BY DEF Begin
<1>5. \A o : Answer(o).op = "answer" /\ Answer(o).out = o /\ Answer(o).arg = 0
  BY DEF Answer
<1>6. CASE ReadHeadOnExecutor
  <2>1. /\ r.op = "readHead" /\ got' = got
        /\ r' = Begin("head", 0) \/ r' = Answer("error")
    BY <1>6 DEF ReadHeadOnExecutor
  <2>2. at = "upHead" /\ InHead
    BY <2>1, PlaceFacts DEF ProxyInv
  <2>3. r'.op \in {"head", "answer"} /\ (r'.op = "answer" => r'.out # "ok")
    BY <1>4, <1>5, <2>1
  <2>4. InHead'
    BY <1>0, <1>2, <2>2, <2>3 DEF InHead
  <2>5. Downwards(down, got)'
    BY <1>0, <1>3, <2>1
  <2> QED  BY <1>0, <2>2, <2>4, <2>5, ProxyArrives
<1>7. CASE HeadRead
  <2>1. /\ r.op = "head"
        /\ \/ r' = Answer("error")
           \/ /\ r' = Answer("ok") /\ parser' \in {"done", "body"}
              /\ got' = Append(got, Head0)
           \/ r' = Begin("head", 0)
    BY <1>7 DEF HeadRead, FinalHeads
  <2>2. at = "upHead" /\ InHead
    BY <2>1, PlaceFacts DEF ProxyInv
  <2>3. got = <<>>
    BY <1>3, <2>1 DEF ReadInv
  <2>4. /\ r'.op \in {"head", "answer"}
        /\ r'.op = "answer" /\ r'.out = "ok" =>
             parser' \in {"done", "body"} /\ got' = <<Head0>>
    BY <1>4, <1>5, <2>1, <2>3
  <2>5. InHead'
    BY <1>0, <1>2, <2>2, <2>4 DEF InHead
  <2>6. down' = <<>> /\ Len(<<>>) = 0
    BY <1>0, <2>2 DEF InHead
  <2>7. Downwards(down, got)'
    BY <2>6 DEF Downwards
  <2> QED  BY <1>0, <2>2, <2>5, <2>7, ProxyArrives
<1>8. CASE ReadOnExecutor
  <2>1. /\ r.op = "readSome" /\ got' = got /\ parser' = parser
        /\ \/ r' = Answer("error")
           \/ r' = Answer("done") /\ parser = "done"
           \/ r' = Begin("part", Part)
    BY <1>8 DEF ReadOnExecutor, AllRead, conn
  <2>2. at = "upRead" /\ InPart
    BY <2>1, PlaceFacts DEF ProxyInv
  <2>3. /\ r'.op \in {"part", "answer"} /\ (r'.op = "answer" => r'.arg = 0)
        /\ r'.op = "answer" /\ r'.out = "done" => parser = "done"
    BY <1>4, <1>5, <2>1
  <2>4. down = got
    BY <2>1, <2>2 DEF InPart
  <2>5. InPart'
    BY <1>0, <1>2, <2>1, <2>2, <2>3, <2>4 DEF InPart
  <2>6. Downwards(down, got)'
    BY <1>0, <1>3, <2>1
  <2> QED  BY <1>0, <2>2, <2>5, <2>6, ProxyArrives
<1>9. CASE PartRead
  <2>1. r.op = "part"
    BY <1>9 DEF PartRead
  <2>2. at = "upRead" /\ InPart
    BY <2>1, PlaceFacts DEF ProxyInv
  <2>3. down = got /\ parser = "body" /\ r.arg = Len(got) /\ Len(got) \in 1..parts
    BY <1>3, <2>1, <2>2 DEF InPart, ReadInv
  <2>4. CASE r' = Answer("error") /\ UNCHANGED <<parser, got>>
    <3>1. r'.op = "answer" /\ r'.out = "error" /\ r'.arg = 0
      BY <1>5, <2>4
    <3>2. InPart'
      BY <1>0, <1>2, <2>2, <2>3, <2>4, <3>1 DEF InPart
    <3>3. Downwards(down, got)'
      BY <1>0, <1>3, <2>4
    <3> QED  BY <1>0, <2>2, <3>2, <3>3, ProxyArrives
  <2>5. ASSUME NEW fin \in BOOLEAN, fin => r.arg = parts,
               r' = [Answer(IF fin THEN "done" ELSE "ok") EXCEPT !.arg = r.arg],
               parser' = IF r.arg = parts THEN "done" ELSE parser,
               got' = Append(got, r.arg)
        PROVE  ProxyInv'
    <3>1. /\ r'.op = "answer" /\ r'.arg = r.arg
          /\ r'.out = IF fin THEN "done" ELSE "ok"
      BY <2>5 DEF Answer
    <3>2. r.arg # 0 /\ r.arg > 0
      BY <1>3, <2>3 DEF ReadInv
    <3>3. /\ parser' \in {"body", "done"} /\ (r'.out = "done" => parser' = "done")
      BY <2>3, <2>5, <3>1
    <3>4. got' = Append(down', r'.arg)
      BY <1>0, <2>3, <2>5, <3>1
    <3>5. InPart'
      BY <1>2, <2>2, <3>1, <3>2, <3>3, <3>4 DEF InPart
    <3>6. Downwards(down, got)'
      <4>1. /\ Len(got) \in Nat /\ Len(got') = Len(got) + 1
            /\ \A i \in 1..Len(got) : got'[i] = got[i]
        BY <1>3, <2>5, AppendFacts
      <4>2. \A i \in 1..Len(got) : i <= Len(got')
        BY <4>1
      <4> QED  BY <1>0, <2>3, <4>1, <4>2 DEF Downwards
    <3> QED  BY <1>0, <2>2, <3>5, <3>6, ProxyArrives
  <2> QED  BY <1>9, <2>4, <2>5 DEF PartRead
<1> QED  BY <1>6, <1>7, <1>8, <1>9

(* The initial state satisfies ProxyInv. *)
LEMMA ProxyInitInv == ProxyInit => ProxyInv
<1> SUFFICES ASSUME ProxyInit PROVE ProxyInv
  OBVIOUS
<1>1. Inv /\ at = "new"
  BY InitInv DEF ProxyInit, Init
<1>2. InNew
  BY DEF ProxyInit, StreamInit, InNew, Nothing
<1>3. ProxyTypes
  <2>1. inTotal \in Nat /\ 0 <= inTotal
    BY StreamAssumption DEF ProxyInit, StreamInit, Chunked
  <2>2. /\ inRead = 0 /\ last = FALSE /\ responseBuffer = 0 /\ down = <<>>
        /\ result = "none" /\ at = "new"
    BY DEF ProxyInit
  <2>3. inRead \in Nat /\ inRead <= inTotal /\ responseBuffer \in Int
    BY <2>1, <2>2
  <2>4. down \in Seq(Int)
    BY <2>2
  <2>5. at \in ProxyPlaces /\ at # "over"
    BY <2>2 DEF ProxyPlaces
  <2>6. last \in BOOLEAN /\ result \in {"none", "ok", "error"}
    BY <2>2
  <2> QED  BY <2>1, <2>2, <2>3, <2>4, <2>5, <2>6 DEF ProxyTypes
<1>4. Heads
  BY <1>1 DEF ProxyInit, Heads
<1>5. Downwards(down, got)
  BY DEF ProxyInit, Downwards
<1> QED  BY <1>1, <1>2, <1>3, <1>4, <1>5 DEF ProxyInv

(* Every step of a proxy session and of its upstream keeps ProxyInv. *)
LEMMA ProxyStepInv == ProxyInv /\ [ProxyNext]_vars => ProxyInv'
<1> SUFFICES ASSUME ProxyInv, [ProxyNext]_vars PROVE ProxyInv'
  OBVIOUS
<1>1. CASE Start
  BY <1>1, ProxyStartKeeps
<1>2. CASE Pump
  BY <1>2, StartedKeeps, InboundKeeps, WrittenKeeps, AskedKeeps, PartKeeps,
     DownstreamKeeps DEF Pump
<1>3. CASE ProxyCancel
  BY <1>3, AnsweredKeeps
<1>4. CASE StreamNetwork /\ UNCHANGED proxyVars
  BY <1>4, AnsweredKeeps
<1>5. CASE StreamStrand /\ UNCHANGED proxyVars
  <2>1. Inv'
    BY <1>5, StrandKeeps DEF ProxyInv
  <2> QED  BY <1>5, <2>1, RequestStepKeeps, ResponseStepKeeps DEF StreamStrand
<1>6. CASE UNCHANGED vars
  <2>1. UNCHANGED streamVars /\ UNCHANGED proxyVars
    BY <1>6 DEF vars
  <2>2. UNCHANGED <<w, r, wire, got, started, requestFinished, parser, made, link, cancelled>>
        /\ Inv'
    BY <2>1, SameInv DEF streamVars, conn, config, ProxyInv
  <2>3. /\ UNCHANGED <<at, inTotal, inRead, down, inCancelled, downCancelled,
                       last, responseBuffer, result>>
        /\ ProxyTypes' /\ Heads'
    BY <2>1, ProxyRests
  <2>4. CASE at # "over"
    BY <2>2, <2>3, <2>4, OutcomeKeeps
  <2>5. CASE at = "over"
    <3>1. InOver'
      BY <2>2, <2>3, <2>5 DEF ProxyInv, InOver, FailureCancelsAll
    <3>2. Downwards(down, got)'
      BY <2>2, <2>3 DEF ProxyInv
    <3> QED  BY <2>2, <2>3, <2>5, <3>1, <3>2, ProxyArrives
  <2> QED  BY <2>4, <2>5
<1> QED
  BY <1>1, <1>2, <1>3, <1>4, <1>5, <1>6 DEF ProxyNext, UpstreamSteps

(* The whole request is on the wire from the answer to its end on. *)
SentInv ==
  /\ length # Chunked => inTotal = length
  /\ w.op = "end" => length = Chunked
  /\ at = "upFinish" /\ w.op = "answer" /\ w.out = "ok" => WholeRequest
  /\ at \in {"upHead", "downStart", "upRead", "downWrite", "downFinish"}
       => WholeRequest
  /\ at = "over" /\ result = "ok" => WholeRequest

(* No step of a proxy session changes what was given to the stream. *)
LEMMA ProxyLeaves == [ProxyNext]_vars => UNCHANGED <<config, inTotal>>
  BY DEF ProxyNext, Start, Pump, Started, InboundRead, InboundError,
     UpstreamWritten, RequestFinished, ResponseHead, ResponsePart, Downstream,
     DownstreamError, ProxyCancel, CancelAll, UpstreamSteps, Rest,
     StreamStrand, StreamNetwork, StartOnExecutor, Connected, HeaderWritten,
     WriteOnExecutor, FinishOnExecutor, BodyWritten, ReadHeadOnExecutor,
     HeadRead, ReadOnExecutor, PartRead, FinishWrite, FinishRead, Cancel,
     streamVars, proxyVars, ends, vars

(* A new session has sent nothing. *)
LEMMA SentInit == ProxyInit => SentInv
<1> SUFFICES ASSUME ProxyInit PROVE SentInv
  OBVIOUS
<1>1. w.op = "idle" /\ at = "new" /\ (length # Chunked => inTotal = length)
  BY DEF ProxyInit, StreamInit, Idle
<1> QED  BY <1>1 DEF SentInv

(* What finish_request leaves on the wire. *)
LEMMA FinishSends ==
  ASSUME ProxyInv, SentInv, FinishOnExecutor, UNCHANGED proxyVars
  PROVE  SentInv'
<1>1. /\ w.op = "finish" /\ UNCHANGED <<wire, started>>
      /\ UNCHANGED <<at, inTotal, result, length>>
      /\ w' = CASE ~MayWrite -> Answer("error")
                [] MayWrite /\ SerializerDone -> Answer("ok")
                [] MayWrite /\ ~SerializerDone -> Begin("end", 0)
  BY DEF FinishOnExecutor, proxyVars, ends, config
<1>2. at = "upFinish" /\ InFinish
  BY <1>1, PlaceFacts DEF ProxyInv
<1>3. /\ MayWrite /\ inRead = inTotal /\ Len(wire) = inRead + 1 /\ Plain(wire)
      /\ inTotal \in Nat
  BY <1>1, <1>2 DEF InFinish, MayWrite, ProxyInv, ProxyTypes, Inv, WriteInv
<1>4. length # Chunked => SerializerDone
  BY <1>3 DEF SentInv, SerializerDone
<1>5. CASE SerializerDone
  <2>1. w'.op = "answer" /\ length # Chunked
    BY <1>1, <1>3, <1>5 DEF Answer, SerializerDone
  <2>2. WholeRequest
    BY <1>3, <2>1 DEF WholeRequest, Plain
  <2>3. WholeRequest'
    BY <1>1, <2>2 DEF WholeRequest
  <2> QED  BY <1>1, <1>2, <2>1, <2>3 DEF SentInv
<1>6. CASE ~SerializerDone
  <2>1. w'.op = "end" /\ length = Chunked
    BY <1>1, <1>3, <1>4, <1>6 DEF Begin
  <2> QED  BY <1>1, <1>2, <2>1 DEF SentInv
<1> QED  BY <1>5, <1>6

(* The last chunk. *)
LEMMA EndSends ==
  ASSUME ProxyInv, SentInv, BodyWritten, w.op = "end", UNCHANGED proxyVars
  PROVE  SentInv'
<1>1. /\ UNCHANGED <<at, inTotal, result, length>> /\ w' = Answer(w.out)
      /\ w.out = "ok" => wire' = Append(wire, End)
  BY DEF BodyWritten, proxyVars, ends, config
<1>2. at = "upFinish" /\ InFinish /\ length = Chunked
  BY PlaceFacts DEF ProxyInv, SentInv
<1>3. /\ inRead = inTotal /\ Len(wire) = inRead + 1 /\ Plain(wire)
      /\ inTotal \in Nat /\ wire \in Seq(Int) /\ End \in Int
  BY <1>2 DEF InFinish, ProxyInv, ProxyTypes, Inv, WriteInv, End
<1>4. w'.op = "answer" /\ w'.out = w.out
  BY <1>1 DEF Answer
<1>5. ASSUME w.out = "ok" PROVE WholeRequest'
  <2>1. /\ Len(wire') = inTotal + 2 /\ wire'[inTotal + 2] = End
        /\ \A i \in 1..(inTotal + 1) : wire'[i] = wire[i]
    BY <1>1, <1>3, <1>5, AppendFacts
  <2> QED  BY <1>1, <1>2, <1>3, <2>1 DEF WholeRequest, Plain
<1> QED  BY <1>1, <1>2, <1>4, <1>5 DEF SentInv

(* Every step of a proxy session keeps SentInv. *)
LEMMA SentStep == ProxyInv /\ SentInv /\ [ProxyNext]_vars => SentInv'
<1> SUFFICES ASSUME ProxyInv, SentInv, [ProxyNext]_vars PROVE SentInv'
  OBVIOUS
<1>0. UNCHANGED <<length, inTotal>> /\ Idle.op = "idle"
  BY ProxyLeaves DEF config, Idle
<1>1. ASSUME wire' = wire, w'.op # "end",
             \/ WholeRequest
             \/ /\ at' \notin {"upHead", "downStart", "upRead", "downWrite",
                               "downFinish"}
                /\ result' # "ok",
             at' = "upFinish" => w'.op # "answer"
      PROVE  SentInv'
  BY <1>0, <1>1 DEF SentInv, WholeRequest
<1>2. CASE Start \/ Pump
  <2>1. wire' = wire
    BY <1>2 DEF Start, Pump, Started, InboundRead, InboundError,
       UpstreamWritten, RequestFinished, ResponseHead, ResponsePart,
       Downstream, DownstreamError, Rest
  <2>2. \A op, arg : Upstream(op, arg) =>
          /\ w'.op \in {"idle", "start", "write", "finish"}
          /\ op = "finish" => w'.op = "finish"
    BY <1>0 DEF Upstream, Post
  <2>3. \A op : Goes(op) => at' = op /\ result' = result
    BY DEF Goes
  <2>4. \A failed : Finish(failed) =>
          /\ at' = "over" /\ result' = (IF failed THEN "error" ELSE "ok")
          /\ w'.op = "idle"
    BY <1>0 DEF Finish
  <2>5. result = "none" <=> at # "over"
    BY DEF ProxyInv, ProxyTypes
  <2>12. ASSUME at # "over",
                \/ Finish(TRUE)
                \/ \E op \in {"upStart", "inRead", "upWrite"} : \E o, x :
                     Goes(op) /\ Upstream(o, x)
                \/ Goes("upFinish") /\ Upstream("finish", 0)
         PROVE  SentInv'
    <3>1. CASE Finish(TRUE)
      BY <1>1, <2>1, <2>4, <3>1
    <3>2. ASSUME NEW op \in {"upStart", "inRead", "upWrite"}, NEW o, NEW x,
                 Goes(op), Upstream(o, x)
          PROVE  SentInv'
      BY <1>1, <2>1, <2>2, <2>3, <2>5, <2>12, <3>2
    <3>3. CASE Goes("upFinish") /\ Upstream("finish", 0)
      BY <1>1, <2>1, <2>2, <2>3, <2>5, <2>12, <3>3
    <3> QED  BY <2>12, <3>1, <3>2, <3>3
  <2>6. CASE Start \/ Started
    BY <2>6, <2>12 DEF Start, Started
  <2>7. CASE InboundRead \/ InboundError
    BY <2>7, <2>12 DEF InboundRead, InboundError, AfterPiece
  <2>8. CASE UpstreamWritten
    BY <2>8, <2>12 DEF UpstreamWritten, NextRequestOp
  <2>9. CASE RequestFinished \/ ResponseHead
    BY <1>1, <2>1, <2>2, <2>3, <2>4, <2>5, <2>9
    DEF RequestFinished, ResponseHead, SentInv
  <2>10. CASE ResponsePart
    <3>1. /\ at = "upRead" /\ WholeRequest
          /\ \/ Finish(TRUE)
             \/ \E op \in ProxyPlaces \ {"upFinish"} : \E o :
                  Goes(op) /\ Upstream(o, 0)
      <4>1. at = "upRead" /\ WholeRequest
        BY <2>10 DEF ResponsePart, SentInv
      <4>2. InPart /\ r.arg \in Int
        BY <4>1 DEF ProxyInv, Inv, ReadInv, ReadRecord
      <4>3. r.arg > 0 \/ r.arg = 0
        BY <2>10, <4>2 DEF InPart, ResponsePart
      <4> QED  BY <2>10, <4>1, <4>3 DEF ResponsePart, NextResponseOp, ProxyPlaces
    <3> QED  BY <1>1, <2>1, <2>2, <2>3, <2>4, <3>1
  <2>11. CASE Downstream \/ DownstreamError
    <3>1. WholeRequest
      BY <2>11 DEF Downstream, DownstreamError, SentInv
    <3>2. \/ \E f \in BOOLEAN : Finish(f)
          \/ \E op \in ProxyPlaces \ {"upFinish"} : \E o :
               Goes(op) /\ Upstream(o, 0)
      BY <2>11 DEF Downstream, DownstreamError, NextResponseOp, ProxyPlaces
    <3> QED  BY <1>1, <2>1, <2>2, <2>3, <2>4, <3>1, <3>2
  <2> QED
    BY <1>2, <2>6, <2>7, <2>8, <2>9, <2>10, <2>11 DEF Pump
<1>3. ASSUME UNCHANGED <<wire, at, result>>, w'.op = w.op,
             w.op = "answer" => w' = w
      PROVE  SentInv'
  BY <1>0, <1>3 DEF SentInv, WholeRequest
<1>4. w \in WriteRecord /\ Network("answer") = {} /\ Network("idle") = {}
  BY DEF ProxyInv, Inv, WriteInv, Network
<1>5. CASE ProxyCancel
  <2>1. w' = w \/ (w' = [w EXCEPT !.out = "error"] /\ w.op # "answer")
    BY <1>4, <1>5 DEF ProxyCancel, CancelAll, Cancel, Aborted
  <2>2. w'.op = w.op /\ (w.op = "answer" => w' = w)
    BY <1>4, <2>1 DEF WriteRecord
  <2> QED  BY <1>3, <1>5, <2>2 DEF ProxyCancel, CancelAll, Cancel
<1>6. CASE StreamNetwork /\ UNCHANGED proxyVars
  <2>1. PICK how \in {"ok", "error", "final", "interim"} :
          FinishWrite(how) \/ FinishRead(how)
    BY <1>6 DEF StreamNetwork
  <2>2. w' = w \/ (w' = [w EXCEPT !.out = how] /\ w.op # "answer")
    BY <1>4, <2>1 DEF FinishWrite, FinishRead
  <2>3. w'.op = w.op /\ (w.op = "answer" => w' = w)
    BY <1>4, <2>2 DEF WriteRecord
  <2>4. UNCHANGED <<wire, at, result>>
    BY <1>6, <2>1 DEF FinishWrite, FinishRead, proxyVars
  <2> QED  BY <1>3, <2>3, <2>4
<1>7. CASE StreamStrand /\ UNCHANGED proxyVars
  <2>1. UNCHANGED <<at, result>>
    BY <1>7 DEF proxyVars
  <2>2. CASE ReadHeadOnExecutor \/ HeadRead \/ ReadOnExecutor \/ PartRead
    BY <1>3, <2>1, <2>2 DEF ReadHeadOnExecutor, HeadRead, ReadOnExecutor,
       PartRead
  <2>3. CASE FinishOnExecutor
    BY <1>7, <2>3, FinishSends
  <2>4. CASE BodyWritten /\ w.op = "end"
    BY <1>7, <2>4, EndSends
  <2>5. CASE \/ StartOnExecutor \/ Connected \/ HeaderWritten
             \/ WriteOnExecutor \/ (BodyWritten /\ w.op # "end")
    <3>1. at \in {"upStart", "upWrite"}
      BY <2>5, PlaceFacts DEF StartOnExecutor, Connected, HeaderWritten,
         WriteOnExecutor, BodyWritten, Opening
    <3>2. \A o, a : Begin(o, a).op = o /\ Answer(o).op = "answer"
      BY DEF Begin, Answer
    <3>3. w'.op # "end"
      BY <2>5, <3>2 DEF StartOnExecutor, Connected, NextStep, HeaderWritten,
         WriteOnExecutor, BodyWritten
    <3> QED  BY <1>0, <2>1, <3>1, <3>3 DEF SentInv
  <2> QED  BY <1>7, <2>2, <2>3, <2>4, <2>5 DEF StreamStrand
<1>8. CASE UNCHANGED vars
  BY <1>3, <1>8 DEF vars, streamVars, proxyVars
<1> QED
  BY <1>2, <1>5, <1>6, <1>7, <1>8 DEF ProxyNext, UpstreamSteps

(* ProxyInv implies what the run checks. *)
LEMMA ProxyInvSound == ProxyInv /\ SentInv => ProxySound
<1> SUFFICES ASSUME ProxyInv, SentInv PROVE ProxySound
  OBVIOUS
<1>1. ForwardedInOrder
  <2>1. \A i \in 1..Len(wire) : wire[i] = i - 1 \/ wire[i] = End
    BY DEF ProxyInv, Inv, WriteInv, OneRequestOnWire
  <2>2. Len(wire) - 1 <= inRead + 1
    BY ProxyNumbers
  <2>3. \A i \in 1..Len(down) :
          \/ i <= Len(got) /\ down[i] = got[i]
          \/ i = Len(down) /\ down[i] = End
    BY DEF ProxyInv, Downwards
  <2> QED  BY <2>1, <2>2, <2>3 DEF ForwardedInOrder
<1>2. result = "none" <=> at # "over"
  BY DEF ProxyInv, ProxyTypes
<1>3. result # "none" => InOver
  BY <1>2 DEF ProxyInv
<1>4. SuccessIsWhole
  <2>1. parser = "done" => Len(got) = parts + 1
    BY DEF ProxyInv, Inv, ReadInv
  <2> QED  BY <1>2, <1>3, <2>1 DEF SuccessIsWhole, InOver, SentInv
<1>5. FailureCancelsAll
  BY <1>3 DEF FailureCancelsAll, InOver
<1>6. HeadFiltered
  <2> SUFFICES ASSUME at # "new" PROVE HeadFiltered
    BY DEF HeadFiltered
  <2>1. /\ forwarded = FilterHopByHop(head, named) /\ named \subseteq EndToEnd
        /\ EndToEnd \subseteq head
        /\ {Connection, TransferEncoding} \subseteq HopByHop
        /\ EndToEnd \cap HopByHop = {}
    BY ProxyAssumption DEF ProxyInv, Heads
  <2>2. forwarded \cap HopByHop = head \cap {TransferEncoding}
    BY <2>1 DEF FilterHopByHop
  <2>3. forwarded \cap EndToEnd = EndToEnd \ named
    BY <2>1 DEF FilterHopByHop
  <2> QED  BY <2>2, <2>3 DEF HeadFiltered
<1> QED  BY <1>1, <1>4, <1>5, <1>6 DEF ProxySound

(* A proxy session forwards both messages in order and without a gap, has   *)
(* forwarded and ended both when it succeeds, cancels all three streams     *)
(* when it fails, and filters the head, for any number of pieces and parts; *)
(* and what it makes of its upstream is one exchange, which it never starts *)
(* again.                                                                   *)
THEOREM ProxyCorrect ==
  ProxySpec => [](ProxySound /\ OneExchange /\ ~restarted)
<1>1. ProxyInit => ProxyInv /\ SentInv /\ ~restarted
  BY ProxyInitInv, SentInit DEF ProxyInit, StreamInit
<1>2. ProxyInv /\ SentInv /\ ~restarted /\ [ProxyNext]_vars
        => ProxyInv' /\ SentInv' /\ ~restarted'
  <2>1. [ProxyNext]_vars => restarted' = restarted
    BY ProxyLeaves DEF config
  <2> QED  BY <2>1, ProxyStepInv, SentStep
<1>3. ProxyInv /\ SentInv => ProxySound /\ OneExchange
  BY InvExchange, ProxyInvSound DEF ProxyInv
<1> QED  BY <1>1, <1>2, <1>3, PTL DEF ProxySpec


-----------------------------------------------------------------------------
(* A subscription of SseClient. *)

(* No call of the subscription is in progress on its stream. *)
Quiet == w = Sse!Idle /\ r = Sse!Idle

Places == {"new", "upStart", "upFinish", "upHead", "upRead", "emit", "over"}

SseTypes ==
  /\ pending \in Nat /\ parsed \in Nat /\ emitted \in Nat
  /\ sseAt \in Places /\ app \in {"idle", "cancelling", "closing"}
  /\ sseLast \in {"more", "done", "error"}
  /\ terminal \in BOOLEAN /\ connectStarted \in BOOLEAN
  /\ held \in BOOLEAN /\ handling \in BOOLEAN

(* Until its end, the events of a subscription are emitted, are left of the *)
(* part that was read last, or one is between its check and its handler.    *)
EventInv ==
  /\ sseAt # "emit" => pending = 0
  /\ ~terminal /\ ~held => emitted + pending = parsed
  /\ ~terminal /\ held => emitted + pending + 1 = parsed
  /\ handling \/ held => sseAt = "emit"

(* The ends that the strand reports. *)
Ends == {"ok", "error", "message_size"}

(* An event is late only when its check was before the end. *)
LateInv ==
  /\ lateEvents \in {0, 1}
  /\ ~terminal => ~abandoned
  /\ ~terminal \/ held => lateEvents = 0
  /\ closeArg \in {"none", "aborted"} \cup Ends
  /\ lateEvents = 1 => closeArg = "aborted" \/ abandoned

PlaceInv ==
  /\ ~connectStarted => sseAt = "new"
  /\ sseAt \in {"new", "emit", "over"} => Quiet

(* Whoever makes the subscription terminal is the one that calls on_close:  *)
(* until then nobody did, also while the application's thread is between    *)
(* the two.                                                                 *)
CloseInv ==
  /\ closeCalls \in {0, 1}
  /\ ~terminal => app # "closing"
  /\ ~terminal \/ app = "closing" => closeCalls = 0
  /\ closeCalls = 0 <=> closeArg = "none"

(* What the reasons for which the strand ends a subscription mean. *)
EndInv ==
  /\ closeArg = "ok" => sseAt = "over" /\ emitted = parsed
  /\ closeArg \in {"error", "message_size"} =>
       sseAt = "over" /\ cancelled /\ (made => link = "closed")

(* How a call of the response direction may have ended. *)
Answers == {"ok", "error", "done"}
Shaped(x) == x = [op |-> x.op, out |-> x.out, arg |-> x.arg]
AnswerInv == Shaped(r) /\ (r.op = "answer" => r.out \in Answers)

SubscriptionInv == SseTypes /\ EventInv /\ PlaceInv /\ CloseInv /\ EndInv

(* Nothing happens on a stream that has no operation, and cancel() leaves   *)
(* its directions alone.                                                    *)
LEMMA QuietStream ==
  ASSUME Quiet
  PROVE  /\ ~Sse!StreamStrand /\ ~Sse!StreamNetwork
         /\ Sse!Cancel => Quiet'
<1>1. w.op = "idle" /\ r.op = "idle"
  BY DEF Quiet, Sse!Idle
<1>2. Sse!Network("idle") = {}
  BY DEF Sse!Network
<1>3. ~Sse!StreamStrand
  BY <1>1 DEF Sse!StreamStrand, Sse!StartOnExecutor, Sse!Connected,
     Sse!HeaderWritten, Sse!WriteOnExecutor, Sse!FinishOnExecutor,
     Sse!BodyWritten, Sse!ReadHeadOnExecutor, Sse!HeadRead,
     Sse!ReadOnExecutor, Sse!PartRead
<1>4. ~Sse!StreamNetwork
  BY <1>1, <1>2 DEF Sse!StreamNetwork, Sse!FinishWrite, Sse!FinishRead
<1>5. Sse!Cancel => Quiet'
  BY <1>1, <1>2 DEF Sse!Cancel, Sse!Aborted, Quiet, Sse!Idle
<1> QED  BY <1>3, <1>4, <1>5

(* cancel() closes the link and keeps the places: what it aborts is still   *)
(* answered on the strand.                                                  *)
LEMMA CancelFacts ==
  ASSUME PlaceInv, EndInv, Sse!Cancel,
         UNCHANGED <<connectStarted, sseAt, emitted, parsed>>
  PROVE  PlaceInv' /\ (closeArg' = closeArg => EndInv')
<1>1. cancelled' = TRUE /\ link' = (IF made THEN "closed" ELSE link) /\ made' = made
  BY DEF Sse!Cancel
<1>2. Quiet => Quiet'
  BY QuietStream
<1> QED  BY <1>1, <1>2 DEF PlaceInv, EndInv

(* The strand goes on with the next call of the stream. *)
LEMMA GoesPlaces ==
  ASSUME connectStarted, UNCHANGED connectStarted,
         NEW there, NEW call, Sse!Goes(there, call),
         \/ there \in {"upStart", "upFinish", "upHead", "upRead"}
         \/ there = "emit" /\ call = "none"
  PROVE  PlaceInv'
<1>1. sseAt' = there /\ connectStarted'
  BY DEF Sse!Goes
<1>3. call = "none" => Quiet'
  BY DEF Sse!Goes, Sse!Upstream, Quiet, Sse!Idle
<1> QED
  BY <1>1, <1>3 DEF PlaceInv

(* The strand ends the subscription, once, or finds it ended. *)
LEMMA FinishFacts ==
  ASSUME SubscriptionInv, NEW ec \in Ends, Sse!Finish(ec),
         UNCHANGED <<connectStarted, app, made, emitted, parsed>>,
         sseAt # "over", connectStarted,
         ec = "ok" => emitted = parsed \/ terminal
  PROVE  PlaceInv' /\ CloseInv' /\ EndInv' /\ sseAt' = "over"
         /\ terminal' = TRUE
<1>1. sseAt' = "over" /\ Quiet' /\ PlaceInv'
  BY DEF Sse!Finish, PlaceInv, Quiet, Sse!Idle
<1>2. /\ closeArg \notin Ends /\ closeCalls \in {0, 1}
      /\ terminal \in BOOLEAN
      /\ closeCalls = 0 <=> closeArg = "none"
      /\ ~terminal => closeCalls = 0 /\ app # "closing"
      /\ app = "closing" => closeCalls = 0
  BY DEF SubscriptionInv, EndInv, CloseInv, SseTypes, Ends
<1>3. CASE terminal
  <2>1. UNCHANGED <<terminal, closeCalls, closeArg>>
    BY <1>3 DEF Sse!Finish, Sse!FirstEnd
  <2> QED  BY <1>1, <1>2, <1>3, <2>1 DEF CloseInv, EndInv, Ends
<1>4. CASE ~terminal
  <2>1. /\ terminal' = TRUE /\ closeCalls' = closeCalls + 1 /\ closeArg' = ec
        /\ cancelled' = (cancelled \/ Sse!CancelsStream(ec))
        /\ link' = IF made /\ Sse!CancelsStream(ec) THEN "closed" ELSE link
    BY <1>4 DEF Sse!Finish, Sse!FirstEnd
  <2>2. closeCalls' = 1 /\ ec # "none"
    BY <1>2, <1>4, <2>1 DEF Ends
  <2>3. CloseInv'
    BY <1>2, <1>4, <2>1, <2>2 DEF CloseInv
  <2>4. ec # "ok" => cancelled' = TRUE /\ (made' => link' = "closed")
    BY <2>1 DEF Sse!CancelsStream
  <2>5. EndInv'
    BY <1>1, <1>4, <2>1, <2>4 DEF EndInv
  <2> QED  BY <1>1, <2>1, <2>3, <2>5
<1> QED  BY <1>2, <1>3, <1>4

(* connect *)
LEMMA ConnectSubscribes ==
  ASSUME SubscriptionInv, Sse!Connect
  PROVE  SubscriptionInv'
<1>1. /\ connectStarted' = TRUE /\ sseAt' = "upStart" /\ sseAt = "new"
      /\ UNCHANGED <<app, abandoned, pending, held, handling, sseLast, parsed,
                     emitted, lateEvents, terminal, closeCalls, closeArg>>
  BY DEF Sse!Connect, Sse!Goes, SubscriptionInv, PlaceInv
<1>2. SseTypes' /\ EventInv'
  BY <1>1 DEF SubscriptionInv, SseTypes, EventInv, Places
<1>3. PlaceInv' /\ CloseInv' /\ EndInv'
  BY <1>1 DEF SubscriptionInv, PlaceInv, CloseInv, EndInv
<1> QED  BY <1>2, <1>3 DEF SubscriptionInv

(* The strand goes on to a place where no event is pending. *)
LEMMA GoneOn ==
  ASSUME SubscriptionInv, NEW next, NEW op, Sse!Goes(next, op),
         connectStarted, pending = 0, ~held, ~handling, sseAt # "over",
         UNCHANGED <<connectStarted, app, pending, held, handling, parsed, emitted,
                     lateEvents>>,
         sseLast' \in {"more", "done", "error"},
         next \in {"upFinish", "upHead", "upRead"}
  PROVE  SubscriptionInv'
<1>1. sseAt' = next /\ UNCHANGED <<terminal, closeCalls, closeArg>>
  BY DEF Sse!Goes
<1>2. SseTypes'
  BY <1>1 DEF SubscriptionInv, SseTypes, Places
<1>3. EventInv'
  BY <1>1 DEF SubscriptionInv, EventInv
<1>4. PlaceInv'
  BY GoesPlaces
<1>5. CloseInv' /\ EndInv'
  BY <1>1 DEF SubscriptionInv, CloseInv, EndInv
<1> QED  BY <1>2, <1>3, <1>4, <1>5 DEF SubscriptionInv

(* The strand ends the subscription where no event is pending. *)
LEMMA Finished ==
  ASSUME SubscriptionInv, NEW ec \in Ends, Sse!Finish(ec),
         connectStarted, pending = 0, ~held, ~handling, sseAt # "over",
         UNCHANGED <<connectStarted, app, made, pending, held, handling, parsed,
                     emitted, lateEvents>>,
         sseLast' \in {"more", "done", "error"}
  PROVE  SubscriptionInv'
<1>1. ~terminal => emitted = parsed
  BY DEF SubscriptionInv, EventInv, SseTypes
<1>2. PlaceInv' /\ CloseInv' /\ EndInv' /\ sseAt' = "over" /\ terminal' = TRUE
  BY <1>1, FinishFacts DEF SubscriptionInv, SseTypes
<1>3. SseTypes'
  BY <1>2 DEF SubscriptionInv, SseTypes, Places
<1>4. EventInv'
  BY <1>2 DEF SubscriptionInv, EventInv
<1> QED  BY <1>2, <1>3, <1>4 DEF SubscriptionInv


(* The callbacks of start and finish. *)
LEMMA RequestedSubscribes ==
  ASSUME SubscriptionInv, Sse!Requested
  PROVE  SubscriptionInv'
<1>1. /\ sseAt \in {"upStart", "upFinish"}
      /\ UNCHANGED <<connectStarted, app, made, pending, held, handling, sseLast,
                     parsed, emitted, lateEvents>>
  BY DEF Sse!Requested, Sse!StreamRest, Sse!AppRest
<1>2. /\ connectStarted /\ pending = 0 /\ ~held /\ ~handling /\ sseAt # "over"
      /\ sseLast \in {"more", "done", "error"}
  BY <1>1 DEF SubscriptionInv, PlaceInv, EventInv, SseTypes
<1>3. CASE w.out # "ok"
  <2>1. Sse!Finish("error")
    BY <1>3 DEF Sse!Requested
  <2> QED  BY <1>1, <1>2, <2>1, Finished DEF Ends
<1>4. CASE w.out = "ok"
  <2>1. Sse!Goes("upFinish", "finish") \/ Sse!Goes("upHead", "readHead")
    BY <1>1, <1>4 DEF Sse!Requested
  <2> QED  BY <1>1, <1>2, <2>1, GoneOn
<1> QED  BY <1>3, <1>4

(* The callback of read_head. *)
LEMMA HeadSubscribes ==
  ASSUME SubscriptionInv, Sse!HeadAnswered
  PROVE  SubscriptionInv'
<1>1. /\ sseAt = "upHead"
      /\ Sse!Finish("error") \/ Sse!Goes("upRead", "readSome")
      /\ UNCHANGED <<connectStarted, app, made, pending, held, handling, sseLast,
                     parsed, emitted, lateEvents>>
  BY DEF Sse!HeadAnswered, Sse!StreamRest, Sse!AppRest
<1>2. /\ connectStarted /\ pending = 0 /\ ~held /\ ~handling /\ sseAt # "over"
      /\ sseLast \in {"more", "done", "error"}
  BY <1>1 DEF SubscriptionInv, PlaceInv, EventInv, SseTypes
<1> QED  BY <1>1, <1>2, Finished, GoneOn DEF Ends

(* The callback of read_some: its events follow those of earlier parts. *)
LEMMA PartSubscribes ==
  ASSUME SubscriptionInv, AnswerInv, Sse!PartAnswered
  PROVE  SubscriptionInv'
<1>0. sseLast' \in {"more", "done", "error"}
  BY DEF Sse!PartAnswered, AnswerInv, Answers
<1>1. /\ sseAt = "upRead"
      /\ UNCHANGED <<connectStarted, app, made, held, handling, emitted, lateEvents>>
  BY DEF Sse!PartAnswered, Sse!StreamRest, Sse!AppRest
<1>2. /\ connectStarted /\ pending = 0 /\ ~held /\ ~handling /\ sseAt # "over"
  BY <1>1 DEF SubscriptionInv, PlaceInv, EventInv, SseTypes
<1>3. CASE Sse!Finish("message_size") /\ UNCHANGED <<pending, parsed>>
  BY <1>0, <1>1, <1>2, <1>3, Finished DEF Ends
<1>4. CASE \E n \in 0..MaxEvents :
             /\ pending' = Sse!ToEmit(n) /\ parsed' = parsed + n
             /\ Sse!Goes("emit", "none")
  <2>1. PICK n \in 0..MaxEvents :
          /\ pending' = n /\ parsed' = parsed + n /\ Sse!Goes("emit", "none")
    BY <1>4 DEF Sse!ToEmit
  <2>2. n \in Nat
    BY <2>1, SubscriptionAssumption DEF Sse!SseClientAssumption
  <2>3. sseAt' = "emit" /\ UNCHANGED <<terminal, closeCalls, closeArg>>
    BY <2>1 DEF Sse!Goes
  <2>4. pending' \in Nat /\ parsed' \in Nat
    BY <2>1, <2>2 DEF SubscriptionInv, SseTypes
  <2>5. SseTypes'
    BY <1>0, <1>1, <2>3, <2>4 DEF SubscriptionInv, SseTypes, Places
  <2>6. ~terminal => emitted + pending' = parsed'
    BY <1>2, <2>1, <2>2 DEF SubscriptionInv, SseTypes, EventInv
  <2>7. EventInv'
    BY <1>1, <1>2, <2>3, <2>6 DEF SubscriptionInv, EventInv
  <2>8. PlaceInv'
    BY <1>1, <1>2, <2>1, GoesPlaces
  <2>9. CloseInv' /\ EndInv'
    BY <1>1, <2>3 DEF SubscriptionInv, CloseInv, EndInv
  <2> QED  BY <2>5, <2>7, <2>8, <2>9 DEF SubscriptionInv
<1> QED  BY <1>3, <1>4 DEF Sse!PartAnswered

(* The check of an event. *)
LEMMA CheckSubscribes ==
  ASSUME SubscriptionInv, Sse!CheckEvent
  PROVE  SubscriptionInv'
<1>1. /\ sseAt = "emit" /\ pending > 0 /\ pending' = pending - 1
      /\ ~held /\ held' = ~terminal
      /\ UNCHANGED <<w, r, made, link, cancelled, connectStarted, terminal,
                     sseAt, sseLast, parsed, emitted, handling, app,
                     closeCalls, closeArg>>
  BY DEF Sse!CheckEvent, Sse!MayEmit, Sse!streamVars, Sse!conn
<1>2. pending' \in Nat
  BY <1>1 DEF SubscriptionInv, SseTypes
<1>3. SseTypes'
  <2>1. held' \in BOOLEAN
    BY <1>1 DEF SubscriptionInv, SseTypes
  <2> QED  BY <1>1, <1>2, <2>1 DEF SubscriptionInv, SseTypes
<1>4. ~terminal => held' /\ emitted' + pending' + 1 = parsed'
  <2>1. pending \in Nat /\ emitted \in Nat
    BY DEF SubscriptionInv, SseTypes
  <2>2. ~terminal => emitted + pending = parsed /\ held'
    BY <1>1 DEF SubscriptionInv, EventInv
  <2>3. emitted + pending = emitted' + pending' + 1
    BY <1>1, <2>1
  <2> QED  BY <1>1, <2>2, <2>3
<1>5. EventInv'
  BY <1>1, <1>4 DEF EventInv
<1>6. PlaceInv' /\ CloseInv'
  BY <1>1 DEF SubscriptionInv, PlaceInv, CloseInv, Quiet, Sse!Idle
<1>7. EndInv'
  BY <1>1 DEF SubscriptionInv, EndInv
<1> QED  BY <1>3, <1>5, <1>6, <1>7 DEF SubscriptionInv

(* The handler is called, with the end before or after it. *)
LEMMA EmitSubscribes ==
  ASSUME SubscriptionInv, Sse!Emit
  PROVE  SubscriptionInv'
<1>1. /\ sseAt = "emit" /\ held /\ held' = FALSE /\ handling' = TRUE
      /\ emitted' = emitted + 1
      /\ UNCHANGED <<w, r, made, link, cancelled, connectStarted, terminal,
                     sseAt, sseLast, pending, parsed, app, closeCalls,
                     closeArg>>
  BY DEF Sse!Emit, Sse!streamVars, Sse!conn, SubscriptionInv, EventInv
<1>2. emitted' \in Nat
  BY <1>1 DEF SubscriptionInv, SseTypes
<1>3. SseTypes'
  BY <1>1, <1>2 DEF SubscriptionInv, SseTypes
<1>4. ~terminal => emitted' + pending' = parsed'
  BY <1>1 DEF SubscriptionInv, SseTypes, EventInv
<1>5. EventInv'
  BY <1>1, <1>4 DEF EventInv
<1>6. PlaceInv' /\ CloseInv'
  BY <1>1 DEF SubscriptionInv, PlaceInv, CloseInv, Quiet, Sse!Idle
<1>7. EndInv'
  BY <1>1 DEF SubscriptionInv, EndInv
<1> QED  BY <1>3, <1>5, <1>6, <1>7 DEF SubscriptionInv

(* A handler that throws ends the subscription, unless it has ended. *)
LEMMA HandledSubscribes ==
  ASSUME SubscriptionInv, Sse!Handled
  PROVE  SubscriptionInv'
<1>1. /\ handling /\ handling' = FALSE
      /\ UNCHANGED <<connectStarted, app, pending, held, sseLast, parsed,
                     emitted, lateEvents, sseAt>>
  BY DEF Sse!Handled, Sse!AppRest
<1>2. sseAt = "emit"
  BY <1>1 DEF SubscriptionInv, EventInv
<1>3. CASE UNCHANGED <<w, r, made, link, cancelled, terminal, closeCalls, closeArg>>
  <2>1. SseTypes' /\ EventInv'
    BY <1>1, <1>3 DEF SubscriptionInv, SseTypes, EventInv
  <2>2. PlaceInv' /\ CloseInv' /\ EndInv'
    BY <1>1, <1>3 DEF SubscriptionInv, PlaceInv, CloseInv, EndInv, Quiet,
       Sse!Idle
  <2> QED  BY <2>1, <2>2 DEF SubscriptionInv
<1>4. CASE /\ ~terminal /\ terminal' = TRUE
           /\ closeCalls' = closeCalls + 1 /\ closeArg' = "aborted"
           /\ Sse!Cancel
  <2>1. SseTypes' /\ EventInv'
    BY <1>1, <1>4 DEF SubscriptionInv, SseTypes, EventInv
  <2>2. closeCalls' = 1 /\ app # "closing"
    BY <1>4 DEF SubscriptionInv, CloseInv
  <2>3. CloseInv'
    BY <1>1, <1>4, <2>2 DEF CloseInv
  <2>4. PlaceInv'
    BY <1>1, <1>4, CancelFacts DEF SubscriptionInv
  <2>5. EndInv'
    BY <1>4 DEF EndInv
  <2> QED  BY <2>1, <2>3, <2>4, <2>5 DEF SubscriptionInv
<1> QED  BY <1>3, <1>4 DEF Sse!Handled, Sse!FirstEnd, Sse!streamVars, Sse!conn

(* The end of the callback of a read. *)
LEMMA EmittedSubscribes ==
  ASSUME SubscriptionInv, Sse!Emitted
  PROVE  SubscriptionInv'
<1>1. /\ sseAt = "emit" /\ pending = 0 /\ ~held /\ ~handling
      /\ UNCHANGED <<connectStarted, app, made, pending, held, handling, sseLast,
                     parsed, emitted, lateEvents>>
  BY DEF Sse!Emitted, Sse!StreamRest, Sse!AppRest
<1>2. connectStarted /\ sseLast \in {"more", "done", "error"} /\ sseAt # "over"
  BY <1>1 DEF SubscriptionInv, PlaceInv, SseTypes
<1>3. CASE terminal
  <2>1. /\ sseAt' = "over"
        /\ UNCHANGED <<w, r, terminal, closeCalls, closeArg, cancelled, link>>
    BY <1>3 DEF Sse!Emitted
  <2>2. SseTypes' /\ EventInv'
    BY <1>1, <1>3, <2>1 DEF SubscriptionInv, SseTypes, EventInv, Places
  <2>3. PlaceInv' /\ CloseInv' /\ EndInv'
    BY <1>1, <1>2, <2>1 DEF SubscriptionInv, PlaceInv, CloseInv, EndInv, Quiet,
       Sse!Idle
  <2> QED  BY <2>2, <2>3 DEF SubscriptionInv
<1>4. CASE ~terminal
  <2>1. \/ \E ec \in Ends : Sse!Finish(ec)
        \/ Sse!Goes("upRead", "readSome")
    BY <1>2, <1>4 DEF Sse!Emitted, Ends
  <2> QED  BY <1>1, <1>2, <2>1, Finished, GoneOn
<1> QED  BY <1>3, <1>4


(* cancel(), finish() and on_close in the application's thread, and the     *)
(* destructor.                                                              *)
LEMMA AppSubscribes ==
  ASSUME SubscriptionInv,
         Sse!AppCancel \/ Sse!AppFinish \/ Sse!AppClose \/ Sse!Abandon
  PROVE  SubscriptionInv'
<1>1. UNCHANGED <<connectStarted, sseAt, pending, held, handling, sseLast, parsed,
                  emitted, lateEvents>>
  BY DEF Sse!AppCancel, Sse!AppFinish, Sse!AppClose, Sse!Abandon
<1>2. terminal' \in {terminal, TRUE} /\ app' \in {app, "idle", "cancelling", "closing"}
  BY DEF Sse!AppCancel, Sse!AppFinish, Sse!AppClose, Sse!Abandon
<1>3. SseTypes'
  BY <1>1, <1>2 DEF SubscriptionInv, SseTypes
<1>4. EventInv'
  <2>1. CASE terminal'
    BY <1>1, <2>1 DEF SubscriptionInv, EventInv
  <2>2. CASE ~terminal'
    <3>1. ~terminal
      BY <1>2, <2>2
    <3> QED  BY <1>1, <3>1 DEF SubscriptionInv, EventInv
  <2> QED  BY <2>1, <2>2
<1>5. PlaceInv' /\ EndInv'
  <2>1. CASE Sse!Cancel
    <3>1. closeArg' = closeArg \/ closeArg' = "aborted"
      BY DEF Sse!AppCancel, Sse!AppFinish, Sse!AppClose, Sse!Abandon
    <3>2. closeArg' = "aborted" => EndInv'
      BY DEF EndInv
    <3> QED  BY <1>1, <2>1, <3>1, <3>2, CancelFacts DEF SubscriptionInv
  <2>2. CASE Sse!AppFinish
    BY <1>1, <2>2 DEF Sse!AppFinish, Sse!streamVars, Sse!conn, SubscriptionInv,
       PlaceInv, EndInv, Quiet, Sse!Idle
  <2> QED
    BY <2>1, <2>2 DEF Sse!AppCancel, Sse!AppFinish, Sse!AppClose, Sse!Abandon
<1>6. CloseInv'
  <2>1. CASE Sse!AppCancel
    BY <2>1 DEF Sse!AppCancel, SubscriptionInv, CloseInv
  <2>2. CASE Sse!AppFinish
    BY <2>2 DEF Sse!AppFinish, Sse!FirstEnd, SubscriptionInv, CloseInv
  <2>3. CASE Sse!AppClose
    <3>1. /\ app = "closing" /\ app' = "idle" /\ terminal' = terminal
          /\ closeCalls' = (IF connectStarted THEN closeCalls + 1 ELSE closeCalls)
          /\ closeArg' = IF connectStarted THEN "aborted" ELSE closeArg
      BY <2>3 DEF Sse!AppClose
    <3>2. closeCalls = 0 /\ terminal /\ closeArg = "none"
      BY <3>1 DEF SubscriptionInv, CloseInv
    <3>3. closeCalls' = IF connectStarted THEN 1 ELSE 0
      BY <3>1, <3>2
    <3> QED  BY <3>1, <3>2, <3>3 DEF CloseInv
  <2>4. CASE Sse!Abandon
    BY <2>4 DEF Sse!Abandon, SubscriptionInv, CloseInv
  <2> QED  BY <2>1, <2>2, <2>3, <2>4
<1> QED  BY <1>3, <1>4, <1>5, <1>6 DEF SubscriptionInv

(* The stream goes on only at a place that awaits it. *)
LEMMA StreamSubscribes ==
  ASSUME SubscriptionInv, Sse!UpstreamSteps
  PROVE  SubscriptionInv'
<1>1. UNCHANGED <<connectStarted, terminal, sseAt, pending, held, handling, sseLast,
                  parsed, emitted, app, closeCalls, closeArg, lateEvents>>
  BY DEF Sse!UpstreamSteps, Sse!clientVars
<1>2. sseAt \notin {"new", "emit", "over"}
  BY QuietStream DEF Sse!UpstreamSteps, SubscriptionInv, PlaceInv
<1>3. SseTypes' /\ EventInv' /\ CloseInv'
  BY <1>1 DEF SubscriptionInv, SseTypes, EventInv, CloseInv
<1>4. PlaceInv' /\ EndInv'
  BY <1>1, <1>2 DEF SubscriptionInv, PlaceInv, EndInv
<1> QED  BY <1>3, <1>4 DEF SubscriptionInv

(* A record keeps its operation when it is given an outcome. *)
LEMMA ShapedFacts ==
  ASSUME NEW how, NEW x, Shaped(x)
  PROVE  Shaped([x EXCEPT !.out = how]) /\ [x EXCEPT !.out = how].op = x.op
<1>1. PICK o, t, a : x = [op |-> o, out |-> t, arg |-> a]
  BY DEF Shaped
<1>2. [x EXCEPT !.out = how] = [op |-> o, out |-> how, arg |-> a] /\ x.op = o
  BY <1>1
<1> QED  BY <1>2 DEF Shaped

(* The response direction answers with "ok", "error" or "done" only. *)
LEMMA AnswerStep ==
  SubscriptionInv /\ AnswerInv /\ [Sse!ClientNext]_subscription => AnswerInv'
<1> SUFFICES ASSUME SubscriptionInv, AnswerInv, [Sse!ClientNext]_subscription
             PROVE  AnswerInv'
  OBVIOUS
<1>1. r' = r => AnswerInv'
  BY DEF AnswerInv, Shaped
<1>2. \A o, a : (r' = Sse!Begin(o, a) \/ r' = Sse!Post(o, a)) /\ o # "answer"
                  => AnswerInv'
  <2> SUFFICES ASSUME NEW o, NEW a, o # "answer",
                      r' = Sse!Begin(o, a) \/ r' = Sse!Post(o, a)
               PROVE  AnswerInv'
    OBVIOUS
  <2>1. Shaped(r') /\ r'.op = o
    BY DEF Shaped, Sse!Begin, Sse!Post
  <2> QED  BY <2>1 DEF AnswerInv, Shaped
<1>3. r' = Sse!Idle => AnswerInv'
  BY DEF AnswerInv, Shaped, Sse!Idle
<1>4. \A how, a :
        /\ how \in Answers
        /\ r' = Sse!Answer(how) \/ r' = [Sse!Answer(how) EXCEPT !.arg = a]
        => AnswerInv'
  <2> SUFFICES ASSUME NEW how, NEW a, how \in Answers,
                      \/ r' = Sse!Answer(how)
                      \/ r' = [Sse!Answer(how) EXCEPT !.arg = a]
               PROVE  AnswerInv'
    OBVIOUS
  <2>1. Shaped(r') /\ r'.out = how
    BY DEF Shaped, Sse!Answer
  <2> QED  BY <2>1 DEF AnswerInv, Shaped
<1>5. \A how : r' = [r EXCEPT !.out = how] /\ r.op # "answer" => AnswerInv'
  <2>1. PICK x : x = r
    OBVIOUS
  <2>2. Shaped(x)
    BY <2>1 DEF AnswerInv
  <2> SUFFICES ASSUME NEW how, r' = [x EXCEPT !.out = how], x.op # "answer"
               PROVE  AnswerInv'
    BY <2>1
  <2>3. Shaped(r') /\ r'.op = x.op
    BY <2>2, ShapedFacts
  <2> QED  BY <2>3 DEF AnswerInv, Shaped
<1>6. Sse!Network("answer") = {}
  BY DEF Sse!Network
<1>7. \A n, o : Sse!Goes(n, o) => AnswerInv'
  BY <1>2, <1>3 DEF Sse!Goes, Sse!Upstream
<1>8. \A ec : Sse!Finish(ec) => AnswerInv'
  BY <1>3 DEF Sse!Finish
<1>0. r' = Sse!Aborted(r) => AnswerInv'
  BY <1>1, <1>5, <1>6 DEF Sse!Aborted
<1>9. Sse!Cancel => AnswerInv'
  BY <1>0, <1>1 DEF Sse!Cancel
<1>10. CASE Sse!Callbacks
  <2>1. CASE Sse!Requested
    BY <1>7, <1>8, <2>1 DEF Sse!Requested
  <2>2. CASE Sse!HeadAnswered
    BY <1>7, <1>8, <2>2 DEF Sse!HeadAnswered
  <2>3. CASE Sse!PartAnswered
    BY <1>7, <1>8, <2>3 DEF Sse!PartAnswered
  <2>4. CASE Sse!CheckEvent \/ Sse!Emit
    BY <1>1, <2>4 DEF Sse!CheckEvent, Sse!Emit, Sse!streamVars
  <2>5. CASE Sse!Handled
    BY <1>1, <1>9, <2>5 DEF Sse!Handled, Sse!streamVars
  <2>6. CASE Sse!Emitted
    BY <1>1, <1>7, <1>8, <2>6 DEF Sse!Emitted, SubscriptionInv, SseTypes
  <2> QED  BY <1>10, <2>1, <2>2, <2>3, <2>4, <2>5, <2>6 DEF Sse!Callbacks
<1>11. CASE Sse!Connect \/ Sse!AppCancel \/ Sse!AppFinish \/ Sse!AppClose
            \/ Sse!Abandon
  BY <1>1, <1>7, <1>9, <1>11 DEF Sse!Connect, Sse!AppCancel, Sse!AppFinish,
     Sse!AppClose, Sse!Abandon, Sse!streamVars
<1>12. CASE Sse!StreamNetwork
  <2>1. PICK how \in {"ok", "error", "final", "interim"} :
          Sse!FinishWrite(how) \/ Sse!FinishRead(how)
    BY <1>12 DEF Sse!StreamNetwork
  <2> QED  BY <1>1, <1>5, <1>6, <2>1 DEF Sse!FinishWrite, Sse!FinishRead
<1>13. CASE Sse!StreamStrand
  <2>1. CASE Sse!ReadHeadOnExecutor
    BY <1>2, <1>4, <2>1 DEF Sse!ReadHeadOnExecutor, Answers
  <2>2. CASE Sse!HeadRead
    BY <1>2, <1>4, <2>2 DEF Sse!HeadRead, Answers
  <2>3. CASE Sse!ReadOnExecutor
    BY <1>2, <1>4, <2>3 DEF Sse!ReadOnExecutor, Answers
  <2>4. CASE Sse!PartRead
    BY <1>4, <2>4 DEF Sse!PartRead, Answers
  <2> QED
    BY <1>0, <1>1, <1>13, <2>1, <2>2, <2>3, <2>4 DEF Sse!StreamStrand,
       Sse!StartOnExecutor, Sse!Connected, Sse!HeaderWritten,
       Sse!WriteOnExecutor, Sse!FinishOnExecutor, Sse!BodyWritten
<1>14. CASE UNCHANGED subscription
  BY <1>1, <1>14 DEF subscription, streamVars
<1> QED
  BY <1>10, <1>11, <1>12, <1>13, <1>14 DEF Sse!ClientNext, Sse!UpstreamSteps

(* Every step of a subscription, of its application and of its stream. *)
LEMMA SubscriptionStep ==
  SubscriptionInv /\ AnswerInv /\ [Sse!ClientNext]_subscription
    => SubscriptionInv'
<1> SUFFICES ASSUME SubscriptionInv, AnswerInv, [Sse!ClientNext]_subscription
             PROVE  SubscriptionInv'
  OBVIOUS
<1>1. CASE Sse!Connect
  BY <1>1, ConnectSubscribes
<1>2. CASE Sse!Callbacks
  BY <1>2, RequestedSubscribes, HeadSubscribes, PartSubscribes, CheckSubscribes,
     EmitSubscribes, HandledSubscribes, EmittedSubscribes DEF Sse!Callbacks
<1>3. CASE Sse!AppCancel \/ Sse!AppFinish \/ Sse!AppClose \/ Sse!Abandon
  BY <1>3, AppSubscribes
<1>4. CASE Sse!UpstreamSteps
  BY <1>4, StreamSubscribes
<1>5. CASE UNCHANGED subscription
  <2>1. UNCHANGED <<w, r, made, link, cancelled>> /\ UNCHANGED sse
    BY <1>5 DEF subscription, streamVars, conn
  <2>2. SseTypes' /\ EventInv'
    BY <2>1 DEF sse, SubscriptionInv, SseTypes, EventInv
  <2>3. PlaceInv' /\ CloseInv' /\ EndInv'
    BY <2>1 DEF sse, SubscriptionInv, PlaceInv, CloseInv, EndInv, Quiet,
       Sse!Idle
  <2> QED  BY <2>2, <2>3 DEF SubscriptionInv
<1> QED  BY <1>1, <1>2, <1>3, <1>4, <1>5 DEF Sse!ClientNext

(* A new subscription. *)
LEMMA SubscriptionInit == Sse!ClientInit => SubscriptionInv /\ AnswerInv
<1> SUFFICES ASSUME Sse!ClientInit PROVE SubscriptionInv /\ AnswerInv
  OBVIOUS
<1>1. Quiet /\ Sse!ClientNew
  BY DEF Sse!ClientInit, Sse!StreamInit, Quiet
<1>2. SseTypes
  BY <1>1 DEF Sse!ClientNew, SseTypes, Places
<1>3. EventInv
  <2>1. pending = 0 /\ emitted = 0 /\ parsed = 0
    BY <1>1 DEF Sse!ClientNew
  <2>2. emitted + pending = parsed
    BY <2>1
  <2>3. ~held /\ ~handling
    BY <1>1 DEF Sse!ClientNew
  <2> QED  BY <1>1, <2>2, <2>3 DEF Sse!ClientNew, EventInv
<1>4. PlaceInv /\ CloseInv /\ EndInv
  BY <1>1 DEF Sse!ClientNew, PlaceInv, CloseInv, EndInv
<1>5. AnswerInv
  BY <1>1 DEF Quiet, Sse!Idle, AnswerInv, Shaped
<1> QED  BY <1>2, <1>3, <1>4, <1>5 DEF SubscriptionInv

(* The instance and this module have the same variables. *)
LEMMA SameVars == UNCHANGED Sse!vars => UNCHANGED subscription
  BY DEF Sse!vars, Sse!streamVars, Sse!clientVars, Sse!config, Sse!conn,
     subscription, streamVars, sse, config, conn

(* Only the event that emit had checked before the end is late. *)
LEMMA LateStep ==
  SubscriptionInv /\ AnswerInv /\ LateInv /\ [Sse!ClientNext]_subscription
    => LateInv'
<1> SUFFICES ASSUME SubscriptionInv, AnswerInv, LateInv,
                    [Sse!ClientNext]_subscription
             PROVE  LateInv'
  OBVIOUS
<1>1. /\ closeCalls \in {0, 1} /\ (closeCalls = 0 <=> closeArg = "none")
      /\ app = "closing" => terminal /\ closeCalls = 0
      /\ handling \/ held => sseAt = "emit"
      /\ sseAt = "emit" => closeArg \notin Ends
      /\ terminal \in BOOLEAN /\ held \in BOOLEAN
  BY DEF SubscriptionInv, CloseInv, EventInv, EndInv, SseTypes, Ends
<1>2. ASSUME UNCHANGED <<held, lateEvents, abandoned>>,
             terminal' \in {terminal, TRUE},
             closeArg' \in {"none", "aborted"} \cup Ends,
             lateEvents = 1 => closeArg' \in {closeArg, "aborted"}
      PROVE  LateInv'
  <2>1. /\ lateEvents' \in {0, 1} /\ (~terminal' => ~abandoned')
        /\ ~terminal' \/ held' => lateEvents' = 0
    <3>1. CASE terminal' = terminal
      BY <1>2, <3>1 DEF LateInv
    <3>2. CASE terminal' = TRUE
      BY <1>2, <3>2 DEF LateInv
    <3> QED  BY <1>2, <3>1, <3>2
  <2>2. lateEvents' = 1 => closeArg' = "aborted" \/ abandoned'
    BY <1>2, Zenon DEF LateInv
  <2> QED  BY <1>2, <2>1, <2>2, Zenon DEF LateInv, Ends
<1>3. \A ec \in Ends : Sse!Finish(ec) =>
        /\ terminal' \in {terminal, TRUE}
        /\ closeArg' \in {closeArg, ec} /\ (terminal => closeArg' = closeArg)
  BY DEF Sse!Finish, Sse!FirstEnd
<1>4. \A n, o : Sse!Goes(n, o) => UNCHANGED <<terminal, closeArg>>
  BY DEF Sse!Goes
<1>5. closeArg \in {"none", "aborted"} \cup Ends
      /\ (lateEvents = 1 => terminal)
  BY DEF LateInv
<1>6. ASSUME NEW ec \in Ends, Sse!Finish(ec),
             UNCHANGED <<held, lateEvents, abandoned>>
      PROVE  LateInv'
  BY <1>2, <1>3, <1>5, <1>6
<1>7. ASSUME NEW n, NEW o, Sse!Goes(n, o),
             UNCHANGED <<held, lateEvents, abandoned>>
      PROVE  LateInv'
  BY <1>2, <1>4, <1>5, <1>7
<1>8. "ok" \in Ends /\ "error" \in Ends /\ "message_size" \in Ends
  BY DEF Ends
<1>9. CASE Sse!Connect \/ Sse!Requested \/ Sse!HeadAnswered
  BY <1>6, <1>7, <1>8, <1>9 DEF Sse!Connect, Sse!Requested, Sse!HeadAnswered,
     Sse!AppRest
<1>10. CASE Sse!PartAnswered
  BY <1>6, <1>7, <1>8, <1>10 DEF Sse!PartAnswered, Sse!AppRest
<1>11. CASE Sse!CheckEvent
  BY <1>1, <1>11 DEF Sse!CheckEvent, Sse!MayEmit, LateInv
<1>12. CASE Sse!Emit
  <2>1. /\ held /\ held' = FALSE /\ lateEvents = 0 /\ closeArg \notin Ends
        /\ UNCHANGED <<terminal, abandoned, closeArg>>
        /\ lateEvents' = IF closeCalls > 0 \/ abandoned THEN lateEvents + 1
                         ELSE lateEvents
    BY <1>1, <1>12 DEF Sse!Emit, LateInv
  <2>2. CASE closeCalls = 1 \/ abandoned
    <3>1. lateEvents' = 1
      BY <2>1, <2>2
    <3>2. closeArg = "aborted" \/ abandoned
      BY <1>1, <1>5, <2>1, <2>2
    <3>3. terminal
      BY <2>2 DEF LateInv, SubscriptionInv, CloseInv
    <3> QED  BY <1>5, <2>1, <3>1, <3>2, <3>3 DEF LateInv
  <2>3. CASE closeCalls = 0 /\ ~abandoned
    <3>1. lateEvents' = 0
      BY <2>1, <2>3
    <3> QED  BY <2>1, <3>1 DEF LateInv
  <2> QED  BY <1>1, <2>2, <2>3
<1>13. CASE Sse!Handled
  <2>1. /\ UNCHANGED <<held, lateEvents, abandoned>>
        /\ \/ UNCHANGED <<terminal, closeArg>>
           \/ terminal' = TRUE /\ closeArg' = "aborted"
    BY <1>13 DEF Sse!Handled, Sse!AppRest
  <2> QED  BY <1>2, <1>5, <2>1
<1>14. CASE Sse!Emitted
  <2>1. UNCHANGED <<held, lateEvents, abandoned>>
    BY <1>14 DEF Sse!Emitted, Sse!AppRest
  <2>2. \/ UNCHANGED <<terminal, closeArg>>
        \/ \E ec \in Ends : Sse!Finish(ec)
        \/ Sse!Goes("upRead", "readSome")
    BY <1>8, <1>14 DEF Sse!Emitted, SubscriptionInv, SseTypes
  <2> QED  BY <1>2, <1>5, <1>6, <1>7, <2>1, <2>2
<1>15. CASE Sse!AppCancel \/ Sse!AppFinish \/ Sse!AppClose
  <2>1. /\ UNCHANGED <<held, lateEvents, abandoned>>
        /\ terminal' \in {terminal, TRUE} /\ closeArg' \in {closeArg, "aborted"}
    BY <1>15 DEF Sse!AppCancel, Sse!AppFinish, Sse!AppClose
  <2> QED  BY <1>2, <1>5, <2>1
<1>16. CASE Sse!Abandon
  BY <1>16 DEF Sse!Abandon, LateInv
<1>17. CASE Sse!UpstreamSteps \/ UNCHANGED subscription
  <2>1. UNCHANGED <<held, lateEvents, abandoned, terminal, closeArg>>
    BY <1>17 DEF Sse!UpstreamSteps, Sse!clientVars, subscription, sse
  <2> QED  BY <1>2, <1>5, <2>1
<1> QED
  BY <1>9, <1>10, <1>11, <1>12, <1>13, <1>14, <1>15, <1>16, <1>17
  DEF Sse!ClientNext, Sse!Callbacks

(* A subscription is told its end at most once, and enters at most one      *)
(* event handler after it, only when cancel() or the destructor ended it;   *)
(* one that ended by itself has emitted every event, and one that ended     *)
(* with an error has closed its connection: however the strand, the         *)
(* application's cancel() and the destructor interleave, and for any number *)
(* of events in a part.                                                     *)
THEOREM SubscriptionCorrect == Sse!ClientSpec => []SubscriptionSound
<1>1. SubscriptionInv /\ AnswerInv /\ LateInv /\ [Sse!ClientNext]_Sse!vars
        => SubscriptionInv' /\ AnswerInv' /\ LateInv'
  BY SameVars, AnswerStep, SubscriptionStep, LateStep
<1>2. SubscriptionInv /\ LateInv => SubscriptionSound
  <2>1. SubscriptionInv => Sse!CloseOnce
    BY DEF SubscriptionInv, CloseInv, Sse!CloseOnce
  <2>2. LateInv => Sse!OneLateEvent
    BY DEF LateInv, Sse!OneLateEvent
  <2>3. SubscriptionInv => Sse!EventsDelivered /\ Sse!ErrorClosesTransport
    BY DEF SubscriptionInv, EndInv, Sse!EventsDelivered,
       Sse!ErrorClosesTransport
  <2> QED
    BY <2>1, <2>2, <2>3 DEF SubscriptionSound, Sse!SubscriptionSound
<1>3. Sse!ClientInit => LateInv
  BY DEF Sse!ClientInit, Sse!ClientNew, LateInv
<1> QED  BY <1>1, <1>2, <1>3, SubscriptionInit, PTL DEF Sse!ClientSpec


-----------------------------------------------------------------------------
(* The exchange of a subscription. *)

(* What the subscription asks the response direction for, by its place: one *)
(* head before any part, and parts only after it.                           *)
AskInv ==
  /\ sseAt = "new" => ~started
  /\ sseAt \in {"new", "upStart", "upFinish"} => parser = "none" /\ r = Idle
  /\ sseAt = "upHead" =>
       /\ w = Idle /\ r.op \in {"readHead", "head", "answer"}
       /\ r.op = "answer" /\ r.out = "ok" => parser # "head"
  /\ sseAt = "upRead" => w = Idle /\ r.op \in {"readSome", "part", "answer"}
  /\ sseAt \in {"upRead", "emit"} => parser # "head"

ExchangeInv == Inv /\ SubscriptionInv /\ AnswerInv /\ AskInv

(* The stream of a subscription is an HttpClientStream. *)
LEMMA SameStream ==
  /\ Sse!StreamStrand => StreamStrand
  /\ Sse!StreamNetwork => StreamNetwork
  /\ Sse!Cancel => Cancel
  /\ Sse!Idle = Idle
<1>1. /\ \A o : Sse!Network(o) = Network(o)
      /\ Sse!Idle = Idle
  BY DEF Sse!Network, Network, Sse!Idle, Idle
<1>9. \A d : Sse!Aborted(d) = Aborted(d)
  BY <1>1 DEF Sse!Aborted, Aborted
<1>2. Sse!StreamNetwork => StreamNetwork
  BY <1>1 DEF Sse!StreamNetwork, StreamNetwork, Sse!FinishWrite, FinishWrite,
     Sse!FinishRead, FinishRead, Sse!config, config, Sse!conn, conn
<1>3. Sse!Cancel => Cancel
  BY <1>9 DEF Sse!Cancel, Cancel, Sse!config, config
<1>4. /\ \A o, a : Sse!Begin(o, a) = Begin(o, a)
      /\ \A o : Sse!Answer(o) = Answer(o)
      /\ Sse!MayWrite = MayWrite /\ Sse!SerializerDone = SerializerDone
      /\ Sse!Part = Part /\ Sse!FinalHeads = FinalHeads
      /\ \A o : Sse!NextStep(o) = NextStep(o)
      /\ \A o : Sse!StartedAfter(o) = StartedAfter(o)
      /\ Sse!Head0 = Head0 /\ Sse!End = End /\ Sse!Interim = Interim
      /\ Sse!HasResponse = HasResponse /\ Sse!AllRead = AllRead
  BY DEF Sse!Begin, Begin, Sse!Answer, Answer, Sse!MayWrite, MayWrite,
     Sse!SerializerDone, SerializerDone, Sse!Part, Part, Sse!FinalHeads,
     FinalHeads, Sse!NextStep, NextStep, Sse!StartedAfter, StartedAfter,
     Sse!Head0, Head0, Sse!End, End, Sse!Interim, Interim, Sse!HasResponse,
     HasResponse, Sse!AllRead, AllRead, Sse!Chunked, Chunked
<1>5. /\ Sse!StartOnExecutor => StartOnExecutor
      /\ Sse!Connected => Connected
      /\ Sse!HeaderWritten => HeaderWritten
  BY <1>4, <1>9 DEF Sse!StartOnExecutor, StartOnExecutor, Sse!Connected, Connected,
     Sse!HeaderWritten, HeaderWritten, Sse!config, config
<1>6. /\ Sse!WriteOnExecutor => WriteOnExecutor
      /\ Sse!FinishOnExecutor => FinishOnExecutor
      /\ Sse!BodyWritten => BodyWritten
  BY <1>4 DEF Sse!WriteOnExecutor, WriteOnExecutor, Sse!FinishOnExecutor,
     FinishOnExecutor, Sse!BodyWritten, BodyWritten, Sse!config, config,
     Sse!conn, conn
<1>7. /\ Sse!ReadHeadOnExecutor => ReadHeadOnExecutor
      /\ Sse!HeadRead => HeadRead
  BY <1>4 DEF Sse!ReadHeadOnExecutor, ReadHeadOnExecutor, Sse!HeadRead,
     HeadRead, Sse!config, config
<1>8. /\ Sse!ReadOnExecutor => ReadOnExecutor
      /\ Sse!PartRead => PartRead
  BY <1>4 DEF Sse!ReadOnExecutor, ReadOnExecutor, Sse!PartRead, PartRead,
     Sse!config, config, Sse!conn, conn
<1> QED
  BY <1>1, <1>2, <1>3, <1>5, <1>6, <1>7, <1>8 DEF Sse!StreamStrand,
     StreamStrand

(* A call of the subscription, or its end, writes and reads nothing. *)
LEMMA AskKeeps ==
  ASSUME Inv, UNCHANGED <<config, made, started, requestFinished, parser, wire,
                          got>>,
         \/ w' = Idle
         \/ w' = w
         \/ w' = Post("start", 0) /\ ~started
         \/ w' = Post("finish", 0),
         \/ r' = Idle
         \/ r' = r
         \/ r' = Post("readHead", 0) /\ parser = "none"
         \/ r' = Post("readSome", 0) /\ parser # "head",
         link' \in {link, "closed"}, cancelled' \in BOOLEAN
  PROVE  Inv'
<1>1. WriteInv'
  <2>1. Idle \in WriteRecord /\ Idle.op = "idle"
    BY DEF Idle, WriteRecord, WriteOps, Outs
  <2>2. Post("start", 0) \in WriteRecord /\ Post("start", 0).op \in Opening
    BY DEF Post, WriteRecord, WriteOps, Outs, Opening
  <2>3. Post("finish", 0) \in WriteRecord /\ Post("finish", 0).op = "finish"
    BY DEF Post, WriteRecord, WriteOps, Outs
  <2>4. CASE w' = w
    BY <2>4, WriteFrame DEF Inv
  <2>5. CASE w' # w
    <3>1. /\ w' \in WriteRecord
          /\ \/ w'.op \in {"idle", "answer", "finish"}
             \/ w'.op \in Opening /\ ~started
      BY <2>1, <2>2, <2>3, <2>5
    <3> QED  BY <3>1, WriteQuiet DEF Inv
  <2> QED  BY <2>4, <2>5
<1>2. ReadInv'
  <2>1. Idle \in ReadRecord /\ Idle.op = "idle"
    BY DEF Idle, ReadRecord, ReadOps, Outs
  <2>2. Post("readHead", 0) \in ReadRecord /\ Post("readHead", 0).op = "readHead"
    BY DEF Post, ReadRecord, ReadOps, Outs
  <2>3. Post("readSome", 0) \in ReadRecord /\ Post("readSome", 0).op = "readSome"
    BY DEF Post, ReadRecord, ReadOps, Outs
  <2>4. parts' = parts
    BY DEF config
  <2>5. CASE r' = r
    BY <2>4, <2>5, ReadFrame DEF Inv
  <2>6. CASE r' # r
    <3>1. /\ r' \in ReadRecord
          /\ \/ r'.op \in {"idle", "answer"}
             \/ r'.op = "readHead" /\ parser = "none"
             \/ r'.op = "readSome" /\ parser # "head"
      BY <2>1, <2>2, <2>3, <2>6
    <3> QED  BY <2>4, <3>1, ReadQuiet DEF Inv
  <2> QED  BY <2>5, <2>6
<1>3. LinkInv'
  BY DEF Inv, LinkInv, config
<1> QED  BY <1>1, <1>2, <1>3 DEF Inv


(* A step of the stream, and cancel(), keep what the subscription asked. *)
LEMMA StreamAsks ==
  ASSUME ExchangeInv, StreamStrand \/ StreamNetwork \/ Cancel,
         (StreamStrand \/ StreamNetwork) =>
           sseAt \in {"upStart", "upFinish", "upHead", "upRead"},
         UNCHANGED sseAt
  PROVE  AskInv'
<1>1. r \in ReadRecord /\ AskInv /\ ReadInv
  BY DEF ExchangeInv, Inv, ReadInv
<1>2. Network("idle") = {} /\ Network("answer") = {}
  BY DEF Network
<1>3. Idle.op = "idle"
  BY DEF Idle
<1>4. ASSUME r'.op = r.op, r.op \in {"idle", "answer"} => r' = r,
             w = Idle => w' = Idle, UNCHANGED <<started, parser>>
      PROVE  AskInv'
  BY <1>1, <1>3, <1>4 DEF AskInv
<1>5. ASSUME NEW how, r' = [r EXCEPT !.out = how], r.op \notin {"idle", "answer"}
      PROVE  r'.op = r.op /\ (r.op \in {"idle", "answer"} => r' = r)
  <2>1. PICK x \in ReadRecord : x = r
    BY <1>1
  <2>2. r' = [x EXCEPT !.out = how]
    BY <1>5, <2>1
  <2>3. r'.op = x.op
    BY <2>2 DEF ReadRecord
  <2> QED  BY <1>5, <2>1, <2>3
<1>6. CASE Cancel
  <2>1. r' = r \/ (r' = [r EXCEPT !.out = "error"] /\ Network(r.op) # {})
    BY <1>6 DEF Cancel, Aborted
  <2>2. r'.op = r.op /\ (r.op \in {"idle", "answer"} => r' = r)
    BY <1>2, <1>5, <2>1
  <2>3. w = Idle => w' = Idle
    BY <1>2, <1>3, <1>6 DEF Cancel, Aborted
  <2> QED  BY <1>4, <1>6, <2>2, <2>3 DEF Cancel
<1>7. CASE StreamNetwork
  <2>1. PICK how \in {"ok", "error", "final", "interim"} :
          FinishWrite(how) \/ FinishRead(how)
    BY <1>7 DEF StreamNetwork
  <2>2. CASE FinishWrite(how)
    BY <1>2, <1>3, <1>4, <2>2 DEF FinishWrite
  <2>3. CASE FinishRead(how)
    <3>1. r' = [r EXCEPT !.out = how] /\ r.op \notin {"idle", "answer"}
      BY <1>2, <2>3 DEF FinishRead
    <3>2. r'.op = r.op /\ (r.op \in {"idle", "answer"} => r' = r)
      BY <1>5, <3>1
    <3> QED  BY <1>4, <2>3, <3>2 DEF FinishRead, conn
  <2> QED  BY <2>1, <2>2, <2>3
<1>8. CASE StreamStrand
  <2>0. sseAt # "new" /\ sseAt # "emit"
    BY <1>8
  <2>1. CASE StartOnExecutor \/ Connected \/ HeaderWritten \/ WriteOnExecutor
             \/ FinishOnExecutor \/ BodyWritten
    <3>1. w # Idle /\ UNCHANGED parser /\ r' \in {r, Aborted(r)}
      BY <1>3, <2>1 DEF StartOnExecutor, Connected, HeaderWritten,
         WriteOnExecutor, FinishOnExecutor, BodyWritten, conn
    <3>2. sseAt \in {"upStart", "upFinish"} /\ r = Idle
      BY <1>1, <1>8, <3>1 DEF AskInv
    <3>3. r' = r
      BY <1>2, <1>3, <3>1, <3>2 DEF Aborted
    <3> QED  BY <1>1, <3>1, <3>2, <3>3 DEF AskInv
  <2>2. CASE ReadHeadOnExecutor \/ HeadRead
    <3>1. r.op \in {"readHead", "head"} /\ w' = w
      BY <2>2 DEF ReadHeadOnExecutor, HeadRead
    <3>2. sseAt = "upHead" /\ w = Idle
      BY <1>1, <1>3, <1>8, <3>1 DEF AskInv
    <3>3. \A o, a : Begin(o, a).op = o
      BY DEF Begin
    <3>4. \A o : Answer(o).op = "answer" /\ Answer(o).out = o
      BY DEF Answer
    <3>5. r'.op \in {"head", "answer"}
      BY <2>2, <3>3, <3>4 DEF ReadHeadOnExecutor, HeadRead
    <3>6. r'.op = "answer" /\ r'.out = "ok" => parser' # "head"
      <4>1. CASE ReadHeadOnExecutor
        BY <3>3, <3>4, <4>1 DEF ReadHeadOnExecutor
      <4>2. CASE HeadRead
        BY <3>3, <3>4, <4>2 DEF HeadRead
      <4> QED  BY <2>2, <4>1, <4>2
    <3> QED  BY <3>1, <3>2, <3>5, <3>6 DEF AskInv
  <2>3. CASE ReadOnExecutor \/ PartRead
    <3>1. r.op \in {"readSome", "part"} /\ w' = w
      BY <2>3 DEF ReadOnExecutor, PartRead
    <3>2. sseAt = "upRead" /\ w = Idle /\ parser # "head"
      BY <1>1, <1>3, <1>8, <3>1 DEF AskInv
    <3>3. parser' \in {parser, "done"}
      BY <2>3 DEF ReadOnExecutor, PartRead, conn
    <3>4. r'.op \in {"part", "answer"}
      <4>1. CASE ReadOnExecutor
        BY <4>1 DEF ReadOnExecutor, Begin, Answer
      <4>2. CASE PartRead
        <5>1. PICK x, a : r' = Answer("error") \/ r' = [Answer(x) EXCEPT !.arg = a]
          BY <4>2 DEF PartRead
        <5> QED  BY <5>1 DEF Answer
      <4> QED  BY <2>3, <4>1, <4>2
    <3> QED  BY <3>1, <3>2, <3>3, <3>4 DEF AskInv
  <2> QED  BY <1>8, <2>1, <2>2, <2>3 DEF StreamStrand
<1> QED  BY <1>6, <1>7, <1>8

(* The subscription goes on with its next call. *)
LEMMA GoesAsks ==
  ASSUME ExchangeInv, NEW there, NEW call, Sse!Goes(there, call),
         UNCHANGED <<config, made, started, requestFinished, parser, wire, got>>,
         \/ there = "upStart" /\ call = "start" /\ sseAt = "new"
         \/ there = "upFinish" /\ call = "finish" /\ sseAt = "upStart"
         \/ there = "upHead" /\ call = "readHead" /\ sseAt = "upFinish"
         \/ there = "upRead" /\ call = "readSome" /\ parser # "head"
         \/ there = "emit" /\ call = "none" /\ parser # "head"
  PROVE  Inv' /\ AskInv'
<1>1. /\ sseAt' = there /\ UNCHANGED <<cancelled, link>>
      /\ w' = (IF call \in {"start", "finish"} THEN Post(call, 0) ELSE Idle)
      /\ r' = (IF call \in {"readHead", "readSome"} THEN Post(call, 0) ELSE Idle)
  BY DEF Sse!Goes, Sse!Upstream, Sse!Post, Post, Sse!Idle, Idle
<1>2. Inv /\ AskInv /\ LinkInv
  BY DEF ExchangeInv, Inv
<1>3. Inv'
  BY <1>1, <1>2, AskKeeps DEF AskInv, LinkInv
<1>4. \A o : Post(o, 0).op = o
  BY DEF Post
<1>5. AskInv'
  BY <1>1, <1>2, <1>4 DEF AskInv
<1> QED  BY <1>3, <1>5

(* The subscription ends on the strand. *)
LEMMA FinishAsks ==
  ASSUME ExchangeInv, NEW ec, Sse!Finish(ec),
         UNCHANGED <<config, made, started, requestFinished, parser, wire, got>>
  PROVE  Inv' /\ AskInv'
<1>1. /\ sseAt' = "over" /\ w' = Idle /\ r' = Idle
      /\ link' \in {link, "closed"} /\ cancelled' \in {cancelled, TRUE}
  <2>1. sseAt' = "over" /\ w' = Idle /\ r' = Idle
    BY DEF Sse!Finish, Sse!Idle, Idle
  <2>2. link' \in {link, "closed"}
    BY DEF Sse!Finish
  <2>3. cancelled \in BOOLEAN
    BY DEF ExchangeInv, Inv, LinkInv
  <2>4. cancelled' = cancelled \/ cancelled' = (cancelled \/ Sse!CancelsStream(ec))
    BY DEF Sse!Finish
  <2>5. cancelled' \in {cancelled, TRUE}
    BY <2>3, <2>4 DEF Sse!CancelsStream
  <2> QED  BY <2>1, <2>2, <2>5
<1>2. cancelled' \in BOOLEAN /\ Inv
  BY <1>1 DEF ExchangeInv, Inv, LinkInv
<1>3. Inv'
  BY <1>1, <1>2, AskKeeps
<1>4. AskInv'
  BY <1>1 DEF AskInv
<1> QED  BY <1>3, <1>4

(* Every step of a subscription keeps the exchange. *)
LEMMA ExchangeStep ==
  ExchangeInv /\ [Sse!ClientNext]_subscription => Inv' /\ AskInv'
<1> SUFFICES ASSUME ExchangeInv, [Sse!ClientNext]_subscription
             PROVE  Inv' /\ AskInv'
  OBVIOUS
<1>1. Inv /\ AskInv /\ SubscriptionInv /\ PlaceInv /\ LinkInv
  BY DEF ExchangeInv, SubscriptionInv, Inv
<1>2. Sse!StreamRest =>
        UNCHANGED <<config, made, started, requestFinished, parser, wire, got>>
  BY DEF Sse!StreamRest, Sse!config, config
<1>3. UNCHANGED <<streamVars, sseAt>> => Inv' /\ AskInv'
  <2> SUFFICES ASSUME UNCHANGED <<streamVars, sseAt>> PROVE Inv' /\ AskInv'
    OBVIOUS
  <2>1. Inv'
    BY <1>1, SameInv
  <2>2. AskInv'
    BY <1>1 DEF AskInv, streamVars, conn, Idle
  <2> QED  BY <2>1, <2>2
<1>4. UNCHANGED Sse!streamVars => UNCHANGED streamVars
  BY DEF Sse!streamVars, streamVars, Sse!config, config, Sse!conn, conn
<1>5. Sse!Cancel /\ UNCHANGED sseAt => Inv' /\ AskInv'
  <2> SUFFICES ASSUME Sse!Cancel, UNCHANGED sseAt PROVE Inv' /\ AskInv'
    OBVIOUS
  <2>1. Cancel
    BY SameStream
  <2>2. Inv'
    BY <1>1, <2>1, CancelKeeps
  <2>3. CASE sseAt \in {"upStart", "upFinish", "upHead", "upRead"}
    BY <2>1, <2>2, <2>3, StreamAsks
  <2>4. CASE sseAt \notin {"upStart", "upFinish", "upHead", "upRead"}
    <3>1. sseAt \in {"new", "emit", "over"} /\ Quiet
      BY <1>1, <2>4 DEF SubscriptionInv, SseTypes, Places, PlaceInv
    <3>2. Quiet' /\ UNCHANGED <<started, parser>>
      BY <2>1, <3>1, QuietStream DEF Cancel
    <3>3. Quiet' => r' = Idle
      BY DEF Quiet, Sse!Idle, Idle
    <3> QED  BY <1>1, <2>2, <3>1, <3>2, <3>3 DEF AskInv
  <2> QED  BY <2>2, <2>3, <2>4
<1>6. CASE Sse!Connect
  <2>1. sseAt = "new" /\ Sse!Goes("upStart", "start")
    BY <1>1, <1>6 DEF Sse!Connect, PlaceInv
  <2> QED  BY <1>2, <1>6, <2>1, GoesAsks DEF Sse!Connect
<1>7. CASE Sse!Requested
  <2>1. \/ Sse!Finish("error")
        \/ sseAt = "upStart" /\ Sse!Goes("upFinish", "finish")
        \/ sseAt = "upFinish" /\ Sse!Goes("upHead", "readHead")
    BY <1>7 DEF Sse!Requested
  <2> QED  BY <1>2, <1>7, <2>1, GoesAsks, FinishAsks DEF Sse!Requested
<1>8. CASE Sse!HeadAnswered
  <2>1. \/ Sse!Finish("error")
        \/ parser # "head" /\ Sse!Goes("upRead", "readSome")
    BY <1>1, <1>8 DEF Sse!HeadAnswered, AskInv
  <2> QED  BY <1>2, <1>8, <2>1, GoesAsks, FinishAsks DEF Sse!HeadAnswered
<1>9. CASE Sse!PartAnswered
  <2>1. \/ Sse!Finish("message_size")
        \/ parser # "head" /\ Sse!Goes("emit", "none")
    BY <1>1, <1>9 DEF Sse!PartAnswered, AskInv
  <2> QED  BY <1>2, <1>9, <2>1, GoesAsks, FinishAsks DEF Sse!PartAnswered
<1>10. CASE Sse!CheckEvent \/ Sse!Emit
  BY <1>3, <1>4, <1>10 DEF Sse!CheckEvent, Sse!Emit
<1>11. CASE Sse!Handled
  BY <1>3, <1>4, <1>5, <1>11 DEF Sse!Handled
<1>12. CASE Sse!Emitted
  <2>1. parser # "head" /\ sseAt = "emit" /\ sseLast \in {"more", "done", "error"}
    BY <1>1, <1>12 DEF Sse!Emitted, AskInv, SubscriptionInv, SseTypes
  <2>2. \/ /\ sseAt' = "over"
           /\ UNCHANGED <<w, r, cancelled, link>>
        \/ \E ec : Sse!Finish(ec)
        \/ Sse!Goes("upRead", "readSome")
    BY <1>12, <2>1 DEF Sse!Emitted
  <2>3. CASE sseAt' = "over" /\ UNCHANGED <<w, r, cancelled, link>>
    <3>1. Inv'
      BY <1>1, <1>2, <1>12, <2>3, AskKeeps DEF Sse!Emitted, LinkInv
    <3>2. AskInv'
      BY <2>3 DEF AskInv
    <3> QED  BY <3>1, <3>2
  <2> QED  BY <1>2, <1>12, <2>1, <2>2, <2>3, GoesAsks, FinishAsks
           DEF Sse!Emitted
<1>13. CASE Sse!AppCancel \/ Sse!AppFinish \/ Sse!AppClose \/ Sse!Abandon
  BY <1>3, <1>4, <1>5, <1>13 DEF Sse!AppCancel, Sse!AppFinish, Sse!AppClose,
     Sse!Abandon
<1>14. CASE Sse!UpstreamSteps
  <2>1. StreamStrand \/ StreamNetwork
    BY <1>14, SameStream DEF Sse!UpstreamSteps
  <2>2. UNCHANGED sseAt
    BY <1>14 DEF Sse!UpstreamSteps, Sse!clientVars
  <2>3. sseAt \in {"upStart", "upFinish", "upHead", "upRead"}
    BY <1>1, <1>14, QuietStream DEF Sse!UpstreamSteps, PlaceInv,
       SubscriptionInv, SseTypes, Places
  <2>4. Inv'
    BY <1>1, <2>1, StrandKeeps, NetworkKeeps
  <2> QED  BY <2>1, <2>2, <2>3, <2>4, StreamAsks
<1>15. CASE UNCHANGED subscription
  BY <1>3, <1>15 DEF subscription, sse
<1> QED
  BY <1>6, <1>7, <1>8, <1>9, <1>10, <1>11, <1>12, <1>13, <1>14, <1>15
     DEF Sse!ClientNext, Sse!Callbacks

(* A subscription makes one exchange of its stream: it writes one request,  *)
(* and reads one response, whose parts it parses in order and once each,    *)
(* also when cancel() and errors end it at any point, and never starts a    *)
(* second one.                                                              *)
THEOREM SubscribedExchange == Sse!ClientSpec => [](OneExchange /\ ~restarted)
<1>1. Sse!ClientInit => ExchangeInv /\ ~restarted
  <2> SUFFICES ASSUME Sse!ClientInit PROVE Inv /\ AskInv /\ ~restarted
    BY SubscriptionInit DEF ExchangeInv
  <2>1. Init
    BY DEF Sse!ClientInit, Sse!StreamInit, Init, StreamInit, Sse!Idle, Idle,
       Sse!Chunked, Chunked
  <2>2. sseAt = "new"
    BY DEF Sse!ClientInit, Sse!ClientNew
  <2> QED  BY <2>1, <2>2, InitInv DEF AskInv, Init, StreamInit
<1>2. ExchangeInv /\ ~restarted /\ [Sse!ClientNext]_Sse!vars
        => ExchangeInv' /\ ~restarted'
  <2>1. [Sse!ClientNext]_Sse!vars => restarted' = restarted
    BY DEF Sse!ClientNext, Sse!Connect, Sse!Callbacks, Sse!Requested,
       Sse!HeadAnswered, Sse!PartAnswered, Sse!CheckEvent, Sse!Emit,
       Sse!Handled, Sse!Emitted, Sse!AppCancel, Sse!AppFinish, Sse!AppClose,
       Sse!Abandon, Sse!UpstreamSteps, Sse!StreamStrand, Sse!StreamNetwork,
       Sse!StartOnExecutor, Sse!Connected, Sse!HeaderWritten,
       Sse!WriteOnExecutor, Sse!FinishOnExecutor, Sse!BodyWritten,
       Sse!ReadHeadOnExecutor, Sse!HeadRead, Sse!ReadOnExecutor, Sse!PartRead,
       Sse!FinishWrite, Sse!FinishRead, Sse!Cancel, Sse!StreamRest,
       Sse!config, Sse!streamVars, Sse!vars
  <2> QED
    BY <2>1, SameVars, AnswerStep, SubscriptionStep, ExchangeStep
    DEF ExchangeInv
<1>3. ExchangeInv => OneExchange
  BY InvExchange DEF ExchangeInv
<1> QED  BY <1>1, <1>2, <1>3, PTL DEF Sse!ClientSpec
===============================================================================
