----------------------------- MODULE MCAdminAPI -----------------------------
(* Two processes; two workers in the first, one in the second.              *)
EXTENDS AdminAPI, TLC

CONSTANTS p1, p2, w1, w2, w3, a, b, s, u1, u2

MCProcessOf == [w \in Workers |-> IF w = w3 THEN p2 ELSE p1]

Doc(id, indexable, valid, refs) ==
  [id |-> id, indexable |-> indexable, valid |-> valid, defs |-> {"main"}, refs |-> refs]

(* b with a field that a collection filter extension has as well: here, one *)
(* that refers to itself, to tell it from b.                                *)
Clashing == Doc(b, TRUE, TRUE, {<<b, "main">>})

(* a on its own, a that needs b, b *)
MCDocuments == {Doc(a, TRUE, TRUE, {}), Doc(a, TRUE, TRUE, {<<b, "main">>}),
                Doc(b, TRUE, TRUE, {}), Clashing}

MCClashes == {{Clashing}}

MCFilesystem == (a :> NoDocument) @@ (b :> NoDocument)

(* A retraction: a row to page through that labels nothing *)
MCOldLabels == {Label(1, s, "spam", TRUE)}

MCOldReports == {[id |-> 1, subject |-> s, status |-> "pending"]}

MCSymmetry == Permutations({u1, u2}) \union Permutations({w1, w2})
=============================================================================
