----------------------------- MODULE MCScanStore -----------------------------
(* Instances of the map's write pipeline for TLC.                          *)
EXTENDS ScanStoreProps, FindingsContract

CONSTANTS r1, r2, api, web, f1, f2, get, p1, p2

(***************************************************************************)
(* What agents write.                                                      *)
(***************************************************************************)

ServiceOf(n, f, type) ==
  [name |-> n, confidence |-> "high", type |-> type, root_path |-> "src",
   language |-> "js", base_path |-> Absent, source_file |-> f]

At(n, f) == ServiceOf(n, f, "service")

(* The web service calls the api; the file is spelled path:symbol. *)
WebToApi(method) ==
  [source |-> web, target |-> api, protocol |-> "rest", method |-> method,
   path |-> "/items", source_file |-> [path |-> f2, absolute |-> FALSE,
                                       symbol |-> "load"],
   source_symbol |-> Absent, target_file |-> Absent, target_symbol |-> Absent,
   confidence |-> "high", evidence |-> "fetch", crossing |-> Null]

Body(index) ==
  [name |-> "Item", role |-> "response", file |-> "item",
   connection_index |-> index,
   fields |-> <<[name |-> "id", type |-> "int", required |-> TRUE]>>]

FindingsOf(services, connections, schemas) ==
  [service_name |-> "repo", confidence |-> "high", services |-> services,
   connections |-> connections, schemas |-> schemas]

(* In a fenced block, as nothing but JSON, or between other words. *)
Fenced(obj) == [fenced |-> obj, whole |-> Unparseable, braces |-> Unparseable]
Bare(obj)   == [fenced |-> Absent, whole |-> obj, braces |-> obj]
Wordy(obj)  == [fenced |-> Absent, whole |-> Unparseable, braces |-> obj]

(* What scanOneRepo hands on of the texts it could parse. *)
Accepted(texts) ==
  {Reported(ParseAgentOutput(t).findings, get, NullRoute) :
     t \in {u \in texts : ParseAgentOutput(u).valid}}

(* Two services and a call between them, with its method and path or       *)
(* without; one that moved to another file; one that calls a service which *)
(* is not among those reported; one that calls none; a caller that is      *)
(* dropped because of its type; and findings that are refused.             *)
Pair == <<At(api, f1), At(web, f2)>>

Both    == Fenced(FindingsOf(Pair, <<WebToApi("GET")>>, <<>>))
Typed   == Fenced(FindingsOf(Pair, <<WebToApi("GET")>>, <<Body(0)>>))
Loose   == Bare(FindingsOf(Pair, <<WebToApi("")>>, <<Body(1)>>))
Moved   == Wordy(FindingsOf(<<At(api, f2)>>, <<>>, <<>>))
Caller(index) ==
           Bare(FindingsOf(<<At(web, f2)>>, <<WebToApi("GET")>>,
                           <<Body(index)>>))
Quiet   == Wordy(FindingsOf(<<At(web, f2)>>, <<>>, <<>>))
Dropped == Fenced(FindingsOf(<<At(api, f1), ServiceOf(web, f2, "queue")>>,
                              <<WebToApi("GET")>>, <<>>))
Wrong   == Fenced(FindingsOf(<<At(api, Malformed)>>,
                              <<[WebToApi("GET") EXCEPT !.path = Malformed]>>,
                              <<>>))

PlainFindings == Accepted({Both, Loose, Moved, Caller(Absent), Dropped, Wrong})
TypedFindings == Accepted({Typed, Caller(0), Quiet, Wrong})
FewFindings   == Accepted({Typed, Moved, Quiet, Wrong})

=============================================================================
