-------------------------- MODULE MCGroundedAnswer --------------------------
(***************************************************************************)
(* Two documents: the first may be cut in two ways, which share a parent   *)
(* and have one of their own each, one of them in force from day 5 on; the *)
(* second holds a translation of its text.  The contexts have room for one *)
(* parent and one hit, or for two small parents.                           *)
(***************************************************************************)
EXTENDS GroundedAnswer, TLC

CONSTANTS alice, bob, c1, c2, lease, rules, what, then, english, hindi

Piece(parent, doc, group, native, from, tokens, lang) ==
  [parent |-> parent, doc |-> doc, group |-> group, native |-> native,
   from |-> from, to |-> None, tokens |-> tokens, lang |-> lang]

Rows ==
  <<Piece(None, lease, None, TRUE, 0, 6, english), Piece(1, lease, 1, TRUE, 0, 3, english),
    Piece(10, lease, None, TRUE, 0, 3, english),
    Piece(None, lease, None, TRUE, 5, 5, english), Piece(4, lease, None, TRUE, 5, 3, english),
    Piece(None, rules, None, FALSE, 0, 7, hindi), Piece(6, rules, 1, FALSE, 0, 4, hindi),
    Piece(6, rules, None, FALSE, 0, 3, hindi), Piece(1, lease, None, TRUE, 0, 4, english),
    Piece(None, lease, None, TRUE, 0, 5, english)>>

Cuttings == lease :> {{1, 2, 10, 3}, {1, 9, 4, 5}} @@ rules :> {{6, 7, 8}}

\* The first asks for a definition today; the second names the day 3 twice,
\* around the day 6, and is asked about the rules alone.
Texts ==
  what :> [iso |-> <<>>, dmy |-> <<>>, definition |-> TRUE, only |-> {}, lang |-> english,
           words |-> <<0, 2, 2, 0, 2, 0, 1, 0, 0, 0>>, distance |-> <<0, 5, 1, 0, 4, 0, 3, 2, 6, 0>>,
           relevance |-> <<0, 3, 4, 0, 5, 0, 6, 2, 1, 0>>]
    @@ then :> [iso |-> <<3, 6>>, dmy |-> <<3>>, definition |-> FALSE, only |-> {rules},
                lang |-> hindi,
                words |-> <<0, 0, 0, 0, 0, 0, 0, 0, 0, 0>>,
                distance |-> <<0, 1, 2, 0, 3, 0, 5, 4, 6, 0>>,
                relevance |-> <<0, 1, 1, 0, 1, 0, 2, 3, 1, 0>>]

Policies == alice :> {lease, rules} @@ bob :> {lease}
Askers == c1 :> alice @@ c2 :> bob

Draft(cited, marks, quotes, review) ==
  [cited |-> cited, marks |-> marks, quotes |-> quotes, review |-> review]

Returned ==
  {Draft({1}, {}, 1 :> "near", FALSE), Draft({1, 2}, {2}, 1 :> "exact" @@ 2 :> "free", FALSE),
   Draft({1}, {1, 0}, 1 :> "exact", FALSE), Draft({0, 1}, {1}, 1 :> "exact", FALSE),
   Draft({}, {}, <<>>, TRUE)}

\* TLC evaluates what replaces a constant at every use, and what that names once.
MCRow == Rows
MCChunkings == Cuttings
MCText == Texts
MCReads == Policies
MCUser == Askers
MCDrafts == Returned
=============================================================================
