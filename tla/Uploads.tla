------------------------------ MODULE Uploads ------------------------------
(***************************************************************************)
(* Uploaded files (nivasa-http upload.rs): a client writes a multipart     *)
(* payload part by part, its end may be lost on the way, and the           *)
(* interceptor of an action takes the files of one field out of it, within *)
(* limits.  A payload is a sequence of tokens: the boundary marker, the    *)
(* dashes that close it, line ends, header lines, and bytes.               *)
(***************************************************************************)
EXTENDS Integers, Sequences, SequencesExt, FiniteSets

CONSTANTS
  Parts,          \* [field: <<name>> or <<>>, filename: pieces between semicolons or <<>>,
                  \*  mime: <<type>> or <<>>, content: tokens]
  Limits,         \* MultipartLimits: [whole, perField, fields: limit of each, allowed, mimes];
                  \* Unlimited for no limit
  Unlimited,
  Wanted,         \* [field, many: FilesInterceptor rather than FileInterceptor,
                  \*  boundary: the request's content type names one]
  MaxParts

\* A part has one name and one type at most, and its content is a sequence of tokens.
ASSUME UploadsAssumption ==
  /\ \A p \in Parts : /\ p.field = <<>> \/ p.field = <<p.field[1]>>
                      /\ p.content \in Seq(ToSet(p.content))
  /\ MaxParts \in Nat

VARIABLES
  parts,          \* what the client has written
  payload,        \* as tokens
  sending,        \* "writing", "closed" or "sent"
  truncated,      \* its end was lost
  limits,
  wanted,
  outcome         \* <<>>, or <<[ok, files]>> or <<[ok, why]>>

uploadVars == <<parts, payload, sending, truncated, limits, wanted, outcome>>

Mark == <<"--boundary">>
Dashes == <<"--">>
Crlf == <<"CRLF">>

-----------------------------------------------------------------------------
(* The client. *)

Disposition(part) == <<"content-disposition", part.field, part.filename>>
TypeLine(part) == <<"content-type", part.mime>>

PartText(part) ==
  <<Mark, Crlf, Disposition(part), Crlf>>
  \o (IF part.mime = <<>> THEN <<>> ELSE <<TypeLine(part), Crlf>>)
  \o <<Crlf>> \o part.content \o <<Crlf>>

UploadInit ==
  /\ parts = <<>>
  /\ payload = <<>>
  /\ sending = "writing"
  /\ truncated = FALSE
  /\ limits \in Limits
  /\ wanted \in Wanted
  /\ outcome = <<>>

WritePart(part) ==
  /\ sending = "writing"
  /\ Len(parts) < MaxParts
  /\ parts' = Append(parts, part)
  /\ payload' = payload \o PartText(part)
  /\ UNCHANGED <<sending, truncated, limits, wanted, outcome>>

Close ==
  /\ sending = "writing"
  /\ payload' = payload \o <<Mark, Dashes>>
  /\ sending' = "closed"
  /\ UNCHANGED <<parts, truncated, limits, wanted, outcome>>

LoseEnd ==
  /\ sending = "closed"
  /\ \E n \in 0..(Len(payload) - 1) : payload' = SubSeq(payload, 1, n)
  /\ truncated' = TRUE
  /\ sending' = "sent"
  /\ UNCHANGED <<parts, limits, wanted, outcome>>

Send ==
  /\ sending = "closed"
  /\ sending' = "sent"
  /\ UNCHANGED <<parts, payload, truncated, limits, wanted, outcome>>

-----------------------------------------------------------------------------
(* multipart_sections: the text between two markers, wherever they are. *)

MarksTo(i) == {j \in 1..i : payload[j] = Mark}

\* Where the markers are, in order.
Marks ==
  [k \in 1..Cardinality(MarksTo(Len(payload))) |->
     CHOOSE i \in DOMAIN payload : payload[i] = Mark /\ Cardinality(MarksTo(i)) = k]

Closing == {k \in DOMAIN Marks : Marks[k] < Len(payload) /\ payload[Marks[k] + 1] = Dashes}

\* The markers before the first that closes.
Opened == IF Closing = {} THEN -1 ELSE Min(Closing) - 1

WithoutPrefix(s) == IF s # <<>> /\ s[1] = Crlf THEN Tail(s) ELSE s
WithoutSuffix(s) == IF s # <<>> /\ Last(s) = Crlf THEN Front(s) ELSE s

Section(k) == WithoutSuffix(WithoutPrefix(SubSeq(payload, Marks[k] + 1, Marks[k + 1] - 1)))

-----------------------------------------------------------------------------
(* One part. *)

Seams(s) == {i \in 1..(Len(s) - 1) : s[i] = Crlf /\ s[i + 1] = Crlf}

\* Slip: the content begins behind the last empty line.
HeaderEnd_Last(s) == Max(Seams(s))

\* split_once_bytes.
HeaderEnd(s) == Min(Seams(s))

HeaderLines(s) == SubSeq(s, 1, HeaderEnd(s) - 1)
Content(s) == SubSeq(s, HeaderEnd(s) + 2, Len(s))

\* Each line has a colon.
HeadersReadable(s) ==
  /\ HeaderLines(s) # <<>>
  /\ \A i \in DOMAIN HeaderLines(s) :
       IF i % 2 = 1 THEN HeaderLines(s)[i][1] \in {"content-disposition", "content-type"}
       ELSE HeaderLines(s)[i] = Crlf
  /\ Len(HeaderLines(s)) % 2 = 1

LineOf(s, name) ==
  LET mine == {i \in DOMAIN HeaderLines(s) : HeaderLines(s)[i][1] = name}
  IN  IF mine = {} THEN <<name, <<>>, <<>>>> ELSE HeaderLines(s)[Max(mine)]

FieldOf(s) == LineOf(s, "content-disposition")[2]
\* A quoted name is cut at its first semicolon.
FilenameOf(s) ==
  LET pieces == LineOf(s, "content-disposition")[3]
  IN  IF pieces = <<>> THEN <<>> ELSE <<pieces[1]>>
MimeOf(s) == LineOf(s, "content-type")[2]

Limit(field) ==
  IF field \in DOMAIN limits.fields THEN limits.fields[field] ELSE limits.perField

Over(size, limit) == limit # Unlimited /\ size > limit

\* What parse_uploaded_files says of a section: "" if it passes, as a file or not.
Fault(s) ==
  IF Seams(s) = {} \/ ~HeadersReadable(s) \/ FieldOf(s) = <<>> THEN "invalid"
  ELSE IF FilenameOf(s) = <<>> THEN ""
  ELSE IF limits.allowed # {} /\ FieldOf(s)[1] \notin limits.allowed THEN "unknown field"
  ELSE IF limits.mimes # {} /\ (MimeOf(s) = <<>> \/ MimeOf(s)[1] \notin limits.mimes) THEN "mime type"
  ELSE IF Over(Len(Content(s)), Limit(FieldOf(s)[1])) THEN "field too large"
  ELSE ""

-----------------------------------------------------------------------------
(* The interceptor. *)

Failed(why) == <<[ok |-> FALSE, why |-> why]>>

\* No marker closes the payload.
Broken == Opened < 0 /\ Marks # <<>>

Sections == [k \in 1..(IF Opened < 0 THEN Len(Marks) - 1 ELSE Opened) |-> Section(k)]

Faulty == {k \in DOMAIN Sections : Fault(Sections[k]) # ""}

FileOf(s) ==
  IF FilenameOf(s) = <<>> \/ FieldOf(s)[1] # wanted.field THEN <<>>
  ELSE <<[filename |-> FilenameOf(s), mime |-> MimeOf(s), content |-> Content(s)]>>

Files == FlattenSeq([k \in DOMAIN Sections |-> FileOf(Sections[k])])

\* run_controller_action_with_file and _with_files by FileInterceptor and FilesInterceptor; the
\* first part that fails fails the whole, also a part of another field.
Extract ==
  /\ sending = "sent"
  /\ outcome = <<>>
  /\ outcome' =
       IF ~wanted.boundary THEN Failed("content type")
       ELSE IF Over(Len(payload), limits.whole) THEN Failed("stream too large")
       ELSE IF Broken THEN Failed("invalid")
       ELSE IF Faulty # {} THEN Failed(Fault(Sections[Min(Faulty)]))
       ELSE IF Files = <<>> THEN Failed("missing file")
       ELSE IF ~wanted.many /\ Len(Files) > 1 THEN Failed("too many files")
       ELSE <<[ok |-> TRUE, files |-> Files]>>
  /\ UNCHANGED <<parts, payload, sending, truncated, limits, wanted>>

UploadNext ==
  \/ \E p \in Parts : WritePart(p)
  \/ Close \/ LoseEnd \/ Send \/ Extract

UploadSpec == UploadInit /\ [][UploadNext]_uploadVars

-----------------------------------------------------------------------------

HasMark(part) == \E i \in DOMAIN part.content : part.content[i] = Mark
NoSemicolon(part) == part.filename = <<>> \/ part.filename = <<part.filename[1]>>

\* What the limits say of any part: its field and its length, and of a file also its type.
WithinLimits(part) ==
  /\ part.field # <<>>
  /\ limits.allowed = {} \/ part.field[1] \in limits.allowed
  /\ ~Over(Len(part.content), Limit(part.field[1]))
  /\ part.filename = <<>> \/ limits.mimes = {} \/ (part.mime # <<>> /\ part.mime[1] \in limits.mimes)

\* The files that were sent for the field, with their names.
FilesSent ==
  FlattenSeq([i \in DOMAIN parts |->
    IF parts[i].filename = <<>> \/ parts[i].field # <<wanted.field>> THEN <<>>
    ELSE <<[filename |-> parts[i].filename, mime |-> parts[i].mime, content |-> parts[i].content]>>])

EnoughFiles == FilesSent # <<>> /\ (wanted.many \/ Len(FilesSent) = 1)

\* The files an action is given are those that were sent for its field, with their names, in order
\* and byte for byte, whatever line ends are in them.  No file among the parts breaks a limit then, and
\* when no part breaks one the files are given.  A payload that lost its end is always
\* refused.  All this if no content has the marker in it and no file name a semicolon
\* (upload.rs:458-710).
UploadsIntact ==
  outcome # <<>> /\ (\A i \in DOMAIN parts : ~HasMark(parts[i]) /\ NoSemicolon(parts[i])) =>
    IF truncated THEN ~outcome[1].ok
    ELSE LET asked  == wanted.boundary /\ ~Over(Len(payload), limits.whole) /\ EnoughFiles
         IN  /\ outcome[1].ok =>
                  /\ asked /\ outcome[1].files = FilesSent
                  /\ \A i \in DOMAIN parts : parts[i].filename # <<>> => WithinLimits(parts[i])
             /\ asked /\ (\A i \in DOMAIN parts : WithinLimits(parts[i])) => outcome[1].ok

\* The promise of MultipartLimits::per_field (upload.rs:184: "Set the maximum size for any single
\* multipart field.") and of field_limit, when the payload arrives whole and no content has the marker.
FieldsLimited ==
  outcome # <<>> /\ ~truncated /\ (\A i \in DOMAIN parts : ~HasMark(parts[i])) =>
    (outcome[1].ok => \A i \in DOMAIN parts :
       parts[i].field # <<>> => ~Over(Len(parts[i].content), Limit(parts[i].field[1])))
=============================================================================
