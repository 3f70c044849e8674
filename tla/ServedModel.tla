----------------------------- MODULE ServedModel -----------------------------
(***************************************************************************)
(* What i3X servers derive from their sources, the object model and the    *)
(* catalog of object types (create-i3x-stack.ts puts both services on one  *)
(* data source), composed with the walk that reads the model.              *)
(***************************************************************************)
EXTENDS HierarchyWalk, TypeCatalog

CONSTANTS
  Catalogs,   \* [adapter, types, faults]: types browsed, the calls that fail
  NoTypes     \* the catalog of a server without types

(* A source may have no nodes; types are browsed below their parents.      *)
ASSUME ServedAssumption ==
  /\ [s \in Servers |-> <<>>] \in Spaces
  /\ \A c \in Catalogs \cup {NoTypes} : IsCatalog(c.types)

VARIABLE catalog

allVars == <<vars, catalog>>

(* To keep instances apart, only one of space and types has its variety.   *)
ServedInit ==
  \/ catalog = NoTypes /\ Init
  \/ catalog \in Catalogs /\ Serving([s \in Servers |-> <<>>])

ServedNext == Next /\ UNCHANGED catalog

ServedSpec == ServedInit /\ [][ServedNext]_allVars

(* Every catalog is sound (TypeCatalog), whichever calls to the source     *)
(* fail while it is fetched.                                               *)
TypesAreSound ==
  stage = "idle" /\ connects = <<>> =>
    CatalogIsSound(catalog.adapter, catalog.types, catalog.faults)

=============================================================================
