------------------------------ MODULE MCRename ------------------------------
(* PowerRenameManager for TLC: a folder, what is in it, and an item beside it. *)
EXTENDS PowerRenameManager, TLC

MCDepth == <<0, 1, 0>>
MCOriginally == <<"a", "a", "b">>

(* "plain" turns the names around, so that one rename may take the name that *)
(* another gives away; "dated" gives everything one name.                    *)
MCReplaced == [c \in Criteria |-> [i \in Items |->
    IF c = "plain" THEN "a" :> "c" @@ "b" :> "a" @@ "c" :> "b" ELSE [name \in Name |-> "c"]]]
=============================================================================
