----------------------------- MODULE LabelList ------------------------------
(***************************************************************************)
(* A client walks through the pages of a workspace's labels while labels   *)
(* are uploaded, change their status and are deleted.                      *)
(*                                                                         *)
(* Labels are numbered in the order of created_at, no two being equal.     *)
(* Each page is one request, and each request two statements without a     *)
(* transaction: COUNT, then SELECT.                                        *)
(***************************************************************************)
EXTENDS Naturals, FiniteSets

CONSTANTS
  MaxLabels, \* bound on uploads
  PerPage    \* labels on a page

VARIABLES
  uploaded, \* labels uploaded so far
  listed,   \* labels that the filter of the walk selects
  step,     \* where the walk is
  page,     \* the page it is at
  total,    \* the last COUNT
  shown,    \* labels that were on a page
  owed,     \* history: labels listed from the walk's first COUNT until now
  left,     \* history: a label left the list from a page already walked
  raced     \* history: a label came between a COUNT and its SELECT

listVars == <<uploaded, listed>>
walkVars == <<step, page, total, shown>>
vars == <<listVars, walkVars, owed, left, raced>>

Init ==
  /\ uploaded \in 0..MaxLabels
  /\ listed \in SUBSET (1..uploaded)
  /\ step = "start" /\ page = 1 /\ total = 0
  /\ shown = {} /\ owed = {}
  /\ left = FALSE /\ raced = FALSE

-----------------------------------------------------------------------------
(* ORDER BY created_at DESC.                                               *)
Rank(i) == Cardinality({j \in listed : j >= i})

(* A mutant: pages are counted from 0.                                     *)
OffsetFromZero(p) == p * PerPage

Offset(p) == (p - 1) * PerPage

(* LIMIT and OFFSET.                                                       *)
OnPage(p) == {i \in listed : Offset(p) < Rank(i) /\ Rank(i) <= Offset(p) + PerPage}

Count ==
  /\ step \in {"start", "next"}
  /\ step' = "counted"
  /\ total' = Cardinality(listed)
  /\ owed' = IF step = "start" THEN listed ELSE owed
  /\ UNCHANGED <<listVars, page, shown, left, raced>>

(* The button for the next page is there while the total promises one.     *)
Select ==
  /\ step = "counted"
  /\ shown' = shown \cup OnPage(page)
  /\ IF page * PerPage < total
     THEN step' = "next" /\ page' = page + 1
     ELSE step' = "done" /\ UNCHANGED page
  /\ UNCHANGED <<listVars, total, owed, left, raced>>

-----------------------------------------------------------------------------
Come(i) ==
  /\ listed' = listed \cup {i}
  /\ raced' = (raced \/ step = "counted")
  /\ UNCHANGED <<walkVars, owed, left>>

(* A new label is the first of the list.                                   *)
Upload ==
  /\ uploaded < MaxLabels
  /\ uploaded' = uploaded + 1
  /\ Come(uploaded + 1)

(* An update makes an older label match the filter.                        *)
Match(i) ==
  /\ i \notin listed
  /\ Come(i)
  /\ UNCHANGED uploaded

(* A label is deleted, or an update takes it out of the filter.            *)
Leave(i) ==
  /\ i \in listed
  /\ listed' = listed \ {i}
  /\ owed' = owed \ {i}
  /\ left' = (left \/ (step # "start" /\ Rank(i) <= Offset(page)))
  /\ UNCHANGED <<uploaded, walkVars, raced>>

Next ==
  \/ Count \/ Select \/ Upload
  \/ \E i \in 1..uploaded : Match(i) \/ Leave(i)

Spec == Init /\ [][Next]_vars

-----------------------------------------------------------------------------
(* A finished walk has shown every label that was listed all the time:     *)
(* new labels only push others to a later page.  Only a label that leaves  *)
(* from a page already walked, or one that comes between COUNT and SELECT  *)
(* of one request, can hide another from the client.                       *)
WalkShowsAll == step = "done" /\ ~ left /\ ~ raced => owed \subseteq shown
=============================================================================
