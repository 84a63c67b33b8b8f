------------------------------- MODULE Catalog -------------------------------
(***************************************************************************)
(* The Fleet Manager's static allowlist (catalog.rs).  A catalog is a      *)
(* sequence of models with an alias and a sequence of variants, as in      *)
(* config/models.toml; of a variant only vendor and backend are told apart. *)
(***************************************************************************)
EXTENDS Naturals, Sequences

aliases(catalog) == [i \in 1 .. Len(catalog) |-> catalog[i].alias]

HasVariant(entry, vendor) == \E j \in 1 .. Len(entry.variants) : entry.variants[j].vendor = vendor

\* The first variant of the vendor, in the order of the file.
VariantFor(entry, vendor) ==
  LET v == entry.variants
  IN  v[CHOOSE j \in 1 .. Len(v) :
          v[j].vendor = vendor /\ \A k \in 1 .. j - 1 : v[k].vendor # vendor]

\* The artifacts a node of the vendor can host, one for each model that has a
\* variant for it.  A node treats them in order, but none depends on another.
resolve_for(catalog, vendor) ==
  {[id |-> catalog[i].alias, backend |-> VariantFor(catalog[i], vendor).backend] :
     i \in {k \in 1 .. Len(catalog) : HasVariant(catalog[k], vendor)}}
=============================================================================
