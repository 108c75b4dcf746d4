------------------------------ MODULE MCUploads ------------------------------
(* Uploads of two parts, whose content may hold line ends, the end of a header or the marker; a    *)
(* file name with a semicolon; a text field; limits that are met exactly and exceeded by one.     *)
EXTENDS Uploads

Part(field, filename, mime, content) ==
  [field |-> field, filename |-> filename, mime |-> mime, content |-> content]
X == <<"x">>
MCParts ==
  {Part(<<"a">>, <<"f">>, <<"png">>, <<X, Crlf, Crlf, X>>), Part(<<"a">>, <<"f", "g">>, <<>>, <<X, Crlf>>),
   Part(<<"b">>, <<"f">>, <<"png">>, <<>>), Part(<<"b">>, <<>>, <<>>, <<X, X, X>>),
   Part(<<>>, <<"f">>, <<>>, <<X>>), Part(<<"a">>, <<"f">>, <<"png">>, <<X, Mark, Dashes, X>>)}
NoLimits == [whole |-> 99, perField |-> 99, fields |-> [f \in {} |-> 0], allowed |-> {}, mimes |-> {}]
MCLimits ==
  {NoLimits, [NoLimits EXCEPT !.perField = 3], [NoLimits EXCEPT !.mimes = {"png"}, !.whole = 17],
   [NoLimits EXCEPT !.perField = 0, !.fields = [f \in {"a"} |-> 4], !.allowed = {"a"}]}
MCWanted ==
  [field : {"a"}, many : BOOLEAN, boundary : {TRUE}] \cup {[field |-> "a", many |-> TRUE, boundary |-> FALSE]}
=============================================================================
