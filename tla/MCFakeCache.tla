----------------------------- MODULE MCFakeCache -----------------------------
(* One known GVK and one unknown, two caller objects, two names and two  *)
(* versions: enough to upsert one object and get another, to edit an      *)
(* object after upserting it, and to remove and re-create an informer.    *)
EXTENDS FakeCache

CONSTANTS g1, g2, r1, r2, k1, k2

MCGvks == {g1, g2}
MCKnownGvks == {g1}
MCRefs == {r1, r2}
MCKeys == {k1, k2}
=============================================================================
