-------------------------- MODULE MCApprovalEngine --------------------------
(***************************************************************************)
(* Instances of ApprovalEngine for TLC.  The matrix has a PARALLEL pair    *)
(* for site north, an EITHER pair (one row of site south, one global for   *)
(* one currency) and a global SEQUENTIAL second step from amount 5 up,     *)
(* like the seeded matrix (prisma/seed.ts).  A submission from north in    *)
(* that currency meets PARALLEL and EITHER rows at one step order.         *)
(***************************************************************************)
EXTENDS ApprovalEngine, TLC

CONSTANTS ann, bob, cat, dan, ops, fin, dir, north, south, usd, zwl,
          par1, par2, any1, any2, top

Row(order, role, mode, site, min, currency) ==
    [order |-> order, role |-> role, mode |-> mode, site |-> site,
     currency |-> currency, min |-> min, max |-> None]

MCRule ==
    [r \in {par1, par2, any1, any2, top} |->
        CASE r = par1 -> Row(1, ops, "PARALLEL", north, 0, None)
          [] r = par2 -> Row(1, fin, "PARALLEL", north, None, None)
          [] r = any1 -> Row(1, ops, "EITHER", south, None, None)
          [] r = any2 -> Row(1, fin, "EITHER", None, None, usd)
          [] OTHER    -> Row(2, dir, "SEQUENTIAL", None, 5, None)]

Holds(u, role, site) == [user |-> u, role |-> role, site |-> site]

\* The requester ann holds the first role too; bob's second role is for one site.
MCAssignments ==
    {Holds(ann, ops, None), Holds(bob, ops, None), Holds(cat, fin, None),
     Holds(cat, dir, None), Holds(bob, fin, south)}

\* Of two users, bob stands in for cat.
BobForCat == {[approver |-> cat, delegate |-> bob, from |-> 0, to |-> 0]}

\* dan stands in for cat from time 1 on, and for ann always.
MCDelegations ==
    {[approver |-> cat, delegate |-> dan, from |-> 1, to |-> 9],
     [approver |-> ann, delegate |-> dan, from |-> 0, to |-> 0]}

Asked(site, amount, currency) ==
    [requester |-> ann, site |-> site, amount |-> amount, currency |-> currency]

NorthHigh == {Asked(north, 9, zwl)}
SouthLow == {Asked(south, 1, None)}
MCRequests == NorthHigh \cup SouthLow
Mixed == {Asked(north, None, usd)}
AllRequests == MCRequests \cup Mixed \cup {Asked(south, 9, None), Asked(None, 1, usd)}

\* Workers are interchangeable.
WorkerSymmetry == Permutations(Workers)

=============================================================================
