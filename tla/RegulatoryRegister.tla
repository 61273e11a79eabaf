-------------------------- MODULE RegulatoryRegister --------------------------
(***************************************************************************)
(* What a project's regulatory watch promises about its register: a list   *)
(* of published baselines to which one is added at a time.  Analyses,      *)
(* reviews and the programs that compete for the watch are not seen here;  *)
(* RegulatoryWatch implements this specification.                          *)
(***************************************************************************)
EXTENDS Integers

CONSTANTS
    Runs,   \* the analyses, each of which publishes at most once
    Laws,
    None

VARIABLES
    register,   \* what each run has published
    current     \* the register in force

Number(b) == IF b = None THEN 0 ELSE register[b].number

\* A watch begins without a register, or with one of an earlier approach.
Init ==
    \/ /\ register = [r \in Runs |-> None]
       /\ current = None
    \/ \E b \in Runs :
         /\ register = [r \in Runs |->
              IF r = b THEN [previous |-> None, number |-> 1, laws |-> {}] ELSE None]
         /\ current = b

\* A new baseline follows the one in force and takes its place.
Publish(r, laws) ==
    /\ register[r] = None
    /\ register' = [register EXCEPT ![r] =
         [previous |-> current, number |-> Number(current) + 1, laws |-> laws]]
    /\ current' = r

Next == \E r \in Runs : \E laws \in (SUBSET Laws) \ {{}} : Publish(r, laws)

Spec == Init /\ [][Next]_<<register, current>>
=============================================================================
