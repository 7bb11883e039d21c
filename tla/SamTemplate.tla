---------------------------- MODULE SamTemplate ----------------------------
(***************************************************************************)
(* parse_sam_template() in tools/generator/parser.py and the staging of    *)
(* layers in tools/generator/main.py, as operators.                        *)
(*                                                                         *)
(* A template is a record: globals, the layers that Globals.Function names,*)
(* and resources, a sequence of [id, type, name, layers, dir, source].     *)
(* name is the name property, or what the parser uses for want of one;     *)
(* layers is None where the property is absent; dir is the last part of a  *)
(* layer's ContentUri and source what it leads to: "tree" (a directory or a*)
(* zip file), "other" (some other file) or None (nothing, or no ContentUri)*)
(* parameters maps a name that is a reference ${P} to its value.           *)
(* Handlers, run-times, environments, events and limits are carried along  *)
(* unchanged and left out.                                                 *)
(***************************************************************************)
EXTENDS Integers, Sequences, SequencesExt

CONSTANT None

\* _resolve_intrinsic(): a parameter without a value stays a reference.
Resolve(name, parameters) ==
  IF name \in DOMAIN parameters THEN parameters[name] ELSE name

OfType(t, type) == SelectSeq(t.resources, LAMBDA r : r.type = type)

Named(t, type, parameters) ==
  LET rs == OfType(t, type) IN [i \in DOMAIN rs |-> Resolve(rs[i].name, parameters)]

\* The layers attached to a function.  A reference to no layer is dropped silently.
LayersOf(t, r) ==
  LET refs == IF r.layers = None THEN t.globals ELSE r.layers
      layer(ref) == CHOOSE l \in Range(OfType(t, "Layer")) : l.id = ref
      known == SelectSeq(refs, LAMBDA ref :
                 \E l \in Range(OfType(t, "Layer")) : l.id = ref)
  IN [i \in DOMAIN known |-> layer(known[i])]

Functions(t, parameters) ==
  LET rs == OfType(t, "Function")
  IN [i \in DOMAIN rs |-> [name |-> Resolve(rs[i].name, parameters),
                           layers |-> LayersOf(t, rs[i])]]

Tables(t, parameters) == Range(Named(t, "Table", parameters))
Buckets(t, parameters) == Range(Named(t, "Bucket", parameters))

Found(layer) == layer.source \in {"tree", "other"}

\* generate_files() passes over a layer that is not found.  For every other one it
\* clears the directory of that name, and fills it again if the layer is a tree.  So
\* a tree remains unless a later layer that is found has its directory's name.
StagedLayers(layers) ==
  {layers[i].id : i \in {j \in DOMAIN layers :
     /\ layers[j].source = "tree"
     /\ \A k \in DOMAIN layers :
          k > j /\ Found(layers[k]) => layers[k].dir # layers[j].dir}}
=============================================================================
