------------------------------- MODULE MCFiles -------------------------------
(* Opened files for model checking.  A declaration is a variable with a    *)
(* path in place of its name; a file is given by the declarations of its   *)
(* handles, in handle order, and its tree holds their paths, interned one  *)
(* after the other.                                                        *)
EXTENDS NameTree, SequencesExt

LOCAL WithPath(t, path) ==
    FoldLeft(LAMBDA acc, s : [tree |-> Interned(acc.tree, acc.id, s),
                              id   |-> InternedId(acc.tree, acc.id, s)],
             [tree |-> t, id |-> Root], path)

LOCAL Named(decl, id) ==
    [field \in (DOMAIN decl \ {"path"}) \cup {"name"} |->
        IF field = "name" THEN id ELSE decl[field]]

FileOf(lists) ==
    LET variable(acc, decl) ==
          LET leaf == WithPath(acc.tree, decl.path)
          IN  [tree |-> leaf.tree, vs |-> Append(acc.vs, Named(decl, leaf.id))]
        handle(acc, list) ==
          LET r == FoldLeft(variable, [tree |-> acc.tree, vs |-> <<>>], list)
          IN  [tree |-> r.tree, handles |-> Append(acc.handles, r.vs)]
        file == FoldLeft(handle, [tree |-> NewTree, handles |-> <<>>], lists)
    IN  [tree |-> file.tree,
         map  |-> [h \in 0 .. Len(lists) - 1 |-> file.handles[h + 1]]]
=============================================================================
