----------------------------- MODULE MCMapServer -----------------------------
(* An instance of the servers for TLC: a project that is one repository,   *)
(* and one that has two below its root, one of the same name.              *)
EXTENDS MapServerProps

Single == <<"home", "api">>
Multi  == <<"work">>

MCProjects == {Single, Multi}
MCReposOf  == [p \in MCProjects |->
                 IF p = Single THEN {Single}
                 ELSE {<<"work", "api">>, <<"work", "web">>}]
MCCwd      == [path |-> Multi, as |-> "plain"]
MCDataDir  == <<"home", ".arcanon", "projects">>

(* The last reply is read by no action: states that differ in it only are  *)
(* one.                                                                    *)
View == <<server, disk, rows, pool, list, sinceSweep, unchanged>>

=============================================================================
