--------------------------- MODULE SourceCatalog ---------------------------
(***************************************************************************)
(* What the scan catalog promises its readers, with no scan, transaction   *)
(* or job in sight.  A name may be registered as a source, each time with  *)
(* a new id.  Completed observations of a source accumulate and never      *)
(* change; they disappear together, when their source is removed, and a    *)
(* source that was removed is never observed again, not even under the     *)
(* same name.  Catalog.tla implements this.                                *)
(***************************************************************************)
EXTENDS Naturals

CONSTANTS Names,      \* names of sources
          None        \* no id

VARIABLES source,     \* the id registered under each name
          ids,        \* the last id given
          observed    \* completed observations: their run, source and catalog

vars == <<source, ids, observed>>

Registered == {source[n] : n \in Names} \ {None}

\* Some names may be registered already; nothing has been observed.
Init == /\ ids \in Nat
        /\ source \in [Names -> (1 .. ids) \cup {None}]
        /\ \A m, n \in Names : m # n /\ source[m] = source[n] => source[n] = None
        /\ observed = {}

Register(n) == /\ source[n] = None
               /\ ids' = ids + 1
               /\ source' = [source EXCEPT ![n] = ids']
               /\ UNCHANGED observed

Remove(n) == /\ source[n] # None
             /\ source' = [source EXCEPT ![n] = None]
             /\ observed' = {o \in observed : o.source # source[n]}
             /\ UNCHANGED ids

\* One observation is added, under a run of its own.
Observe == /\ \E o \in observed' : /\ o.source \in Registered
                                   /\ \A p \in observed : p.run # o.run
                                   /\ observed' = observed \cup {o}
           /\ UNCHANGED <<source, ids>>

Next == \/ \E n \in Names : Register(n) \/ Remove(n)
        \/ Observe

Spec == Init /\ [][Next]_vars
=============================================================================
