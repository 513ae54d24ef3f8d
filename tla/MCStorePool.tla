---------------------------- MODULE MCStorePool ----------------------------
(* A small instance of StorePool for TLC. *)
EXTENDS StorePool

CONSTANTS pl, ca, wo, pv, ot, bad, b1, b2

Rec(table, id, ref, body) ==
    [table |-> table, id |-> id, ref |-> ref, wellFormed |-> TRUE, body |-> body]

\* Two plans with one id, and a projection result that takes it too; and what is
\* refused: a calendar that names no plan, a submission under an id that is none,
\* a preview whose timestamp does not parse.
Records == {Rec("plans", pl, pl, b1), Rec("plans", pl, pl, b2),
            Rec("projection_results", pl, pv, b1), Rec("calendars", ca, bad, b1),
            Rec("worker_submissions", bad, bad, b1),
            [Rec("projection_previews", pv, pv, b1) EXCEPT !.wellFormed = FALSE]}
=============================================================================
