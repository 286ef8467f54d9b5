---------------------------- MODULE MCArchiveSync -----------------------------
(* Two races, one of an earlier season and one of this season. *)
EXTENDS ArchiveSync, TLC
CONSTANTS older, newer
TheOrder == <<older, newer>>
Sync(range, target, upcoming) == [range |-> range, target |-> target, upcoming |-> upcoming]
TheCommands == {Sync(Session, None, TRUE), Sync({newer}, None, FALSE), Sync({older}, older, TRUE)}
Symmetric == Permutations(Process)
=============================================================================
