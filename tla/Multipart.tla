------------------------------ MODULE Multipart ------------------------------
(***************************************************************************)
(* HttpContext::parse_multipart_data against the form it was made from.    *)
(* A body is a sequence of tokens: the line end NL, the delimiter B        *)
(* ("--boundary"), DD ("--"), the headers of a part, and X, any other      *)
(* piece of data.  The application parses it once, at its first access.    *)
(***************************************************************************)
EXTENDS Integers, Sequences, SequencesExt

CONSTANTS
  Names,          \* names of form fields
  MaxParts,       \* parts of a form
  MaxData         \* tokens of the data of a form

MultipartAssumption == MaxParts \in Nat /\ MaxData \in Nat

NL == [k |-> "nl"]
B == [k |-> "boundary"]
DD == [k |-> "dashes"]
X == [k |-> "data"]
Disposition(name, file) == [k |-> "disposition", name |-> name, file |-> file]
ContentType == [k |-> "type"]

(* Data is any sequence of tokens without a delimiter line: the text of a   *)
(* delimiter may be inside a line of it, not at the start of one.           *)
Data ==
  {d \in UNION {[1..n -> {NL, DD, X, B}] : n \in 0..MaxData} :
     \A i \in DOMAIN d : d[i] = B => i > 1 /\ d[i - 1] # NL}

(* A part: a field or a file, and where its Content-Type is, if anywhere.   *)
Parts ==
  [name : Names, file : BOOLEAN, data : Data,
   type : {"none", "after", "first"}]

VARIABLES
  form,           \* the parts that the client sends
  body,           \* the request's body
  parsed,         \* multipart_parsed_
  fields,         \* cached_multipart_fields_
  files           \* cached_multipart_files_

vars == <<form, body, parsed, fields, files>>

(* The decisions of the code; a mutant of one stands before it.             *)
KeepsLineEnd(s, from, marker) == SubSeq(s, from, marker)       \* mutant
(* The data of a part ends before the line end of the delimiter. *)
PartData(s, from, marker) == SubSeq(s, from, marker - 1)

(* The final delimiter is followed by two dashes. *)
IsFinal(s, after) == after <= Len(s) /\ s[after] = DD

(* Files of one name are all kept; of fields the last one. *)
WithFile(old, file) == Append(old, file)

(* std::string::find: the first place from `from' on where s has t, or 0.   *)
Find(s, t, from) ==
  LET at == {i \in from..(Len(s) + 1 - Len(t)) :
               SubSeq(s, i, i + Len(t) - 1) = t}
  IN  IF at = {} THEN 0 ELSE Min(at)

-----------------------------------------------------------------------------
(* What a client sends: the headers of each part on lines of their own, an  *)
(* empty line, its data, and delimiter lines around the parts.              *)
Headers(part) ==
  LET disposition == <<Disposition(part.name, part.file)>> IN
  CASE part.type = "none" -> disposition
    [] part.type = "after" -> disposition \o <<NL, ContentType>>
    [] part.type = "first" -> <<ContentType, NL>> \o disposition

Encoded(parts) ==
  FoldLeft(LAMBDA s, part : s \o <<B, NL>> \o Headers(part) \o <<NL, NL>>
                              \o part.data \o <<NL>>, <<>>, parts)
    \o <<B, DD, NL>>

(* extract_header_value: at the start of the headers the name is not        *)
(* skipped, and stays part of the value.                                    *)
HeaderValue(headers, k) ==
  LET i == SelectInSeq(headers, LAMBDA h : h.k = k) IN
  CASE i = 0 -> "none" [] i = 1 -> "name and value" [] OTHER -> "value"

(* One part, from its headers and data, added to what was found before. *)
AddPart(found, headers, data) ==
  LET i == SelectInSeq(headers, LAMBDA h : h.k = "disposition")
      type == HeaderValue(headers, "type")
      n == headers[i].name
  IN  IF i = 0 THEN found
      ELSE IF headers[i].file
      THEN [found EXCEPT !.files[n] =
              WithFile(@, [data |-> data, type |-> type])]
      ELSE [found EXCEPT !.fields[n] = <<data>>]

(* The loop over the parts; pos is just after a delimiter.  A part without  *)
(* an end of headers, or without a next delimiter, ends it.                 *)
RECURSIVE Loop(_, _, _)
Loop(s, pos, found) ==
  LET headerEnd == Find(s, <<NL, NL>>, pos)
      lines == SubSeq(s, pos, headerEnd - 1)
      headers == IF lines # <<>> /\ lines[1] = NL THEN Tail(lines) ELSE lines
      marker == Find(s, <<NL, B>>, headerEnd + 2)
      after == marker + 2
      next == AddPart(found, headers, PartData(s, headerEnd + 2, marker))
  IN  IF pos > Len(s) \/ headerEnd = 0 \/ marker = 0 THEN found
      ELSE IF IsFinal(s, after) THEN next
      ELSE Loop(s, after, next)

(* parse_multipart_data: past the preamble to the first delimiter. *)
ParseMultipartData ==
  LET first == Find(body, <<B>>, 1)
      found == Loop(body, first + 1, [fields |-> fields, files |-> files])
  IN  /\ ~parsed
      /\ parsed' = TRUE
      /\ fields' = found.fields /\ files' = found.files
      /\ UNCHANGED <<form, body>>

Init ==
  /\ form \in UNION {[1..n -> Parts] : n \in 1..MaxParts}
  /\ FoldLeft(LAMBDA n, p : n + Len(p.data), 0, form) <= MaxData
  /\ \E preamble \in {<<>>, <<X, NL>>} : body = preamble \o Encoded(form)
  /\ parsed = FALSE
  /\ fields = [n \in Names |-> <<>>] /\ files = [n \in Names |-> <<>>]

Next == ParseMultipartData
Spec == Init /\ [][Next]_vars

-----------------------------------------------------------------------------
(* The parts of a form that the parser should find, from the form itself.   *)
Sent(n, file) == SelectSeq(form, LAMBDA p : p.name = n /\ p.file = file)

(* The data of every part comes out as it was sent, also when it holds      *)
(* empty lines, dashes or the text of the delimiter, is empty, or ends in a *)
(* line end; of fields with one name the last counts.                       *)
FieldsExact ==
  parsed => \A n \in Names :
    LET sent == Sent(n, FALSE) IN
    fields[n] = IF sent = <<>> THEN <<>> ELSE <<sent[Len(sent)].data>>

(* All files of a field come out, in order. *)
FilesExact ==
  parsed => \A n \in Names :
    LET sent == Sent(n, TRUE) IN
    /\ Len(files[n]) = Len(sent)
    /\ \A i \in DOMAIN sent : files[n][i].data = sent[i].data

(* A file has a content type exactly if the client gave one: of the file    *)
(* itself, not of a neighbour; and it is the bare MIME type if the client   *)
(* sends Content-Disposition first, as they do.                             *)
TypesExact ==
  parsed => \A n \in Names : \A i \in DOMAIN files[n] :
    LET sent == Sent(n, TRUE)[i].type  got == files[n][i].type IN
    /\ got = "none" <=> sent = "none"
    /\ sent = "after" => got = "value"

(* What the handler reads from a form is what the client put in it. *)
FormExact == FieldsExact /\ FilesExact /\ TypesExact
=============================================================================
