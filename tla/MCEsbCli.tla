------------------------------ MODULE MCEsbCli ------------------------------
(***************************************************************************)
(* Projects for TLC.  The edit of the first one adds a table and a         *)
(* function with a parameter in its name, one layer whose directory is     *)
(* called like another's, one that is not found, one that is no tree, and  *)
(* one that the template does not define.  The second one is edited twice. *)
(***************************************************************************)
EXTENDS EsbCli

Entry(id, type, name) ==
  [id |-> id, type |-> type, name |-> name, layers |-> None, dir |-> None, source |-> None]

Fn(id, name, layers) == [Entry(id, "Function", name) EXCEPT !.layers = layers]
Layer(id, dir, source) == [Entry(id, "Layer", id) EXCEPT !.dir = dir, !.source = source]
Resource(id, type) == Entry(id, type, id)

First0 == <<Layer("common", "lib", "tree"), Fn("A", "a", None), Resource("t", "Table"),
            Resource("b", "Bucket")>>

Added1 == <<Layer("extra", "lib", "tree"), Layer("lost", "lib", None),
            Layer("tool", "bin", "tree"), Layer("text", "bin", "other"),
            Fn("B", "${B}", <<"common", "extra", "lost", "tool", "text", "gone">>),
            Resource("u", "Table")>>

MCTemplates == [v \in 0..1 |-> [globals |-> <<"common">>,
                                resources |-> IF v = 0 THEN First0 ELSE First0 \o Added1]]

MCParameters == [n \in {"${B}"} |-> "b"]

MCEdits == [v \in 0..2 |-> [globals |-> <<"common">>,
                            resources |-> IF v = 2 THEN Append(First0, Resource("u", "Table"))
                                          ELSE First0]]
=============================================================================
