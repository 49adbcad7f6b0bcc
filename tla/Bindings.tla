------------------------------ MODULE Bindings ------------------------------
(***************************************************************************)
(* What a stack of temporary environments promises: a base environment and *)
(* a stack of scopes, each a partial map laid over the ones below it.  A   *)
(* name means what the innermost scope that binds it says.  Leaving a      *)
(* scope forgets exactly its own bindings.                                 *)
(*                                                                         *)
(* The shell keeps the visible value in place and a frame of saved values  *)
(* per scope instead, for descriptor slots (redirection.rs) and for        *)
(* variables (variables.rs).  Modules Redirection and Variables show that  *)
(* this is the same thing.                                                 *)
(***************************************************************************)
EXTENDS Naturals, Sequences

CONSTANTS
    Key,        \* what can be bound: descriptor slots, variable names
    Val         \* what it can be bound to, the value of an unbound name included

VARIABLES
    base,       \* [Key -> Val]: the environment under every scope
    stack       \* the scopes, innermost last, each a function from a subset of Key

bvars == <<base, stack>>

\* The innermost scope that binds k, 0 when only the base does.
Binder(k) ==
    LET binding == {i \in 1..Len(stack) : k \in DOMAIN stack[i]}
    IN  IF binding = {} THEN 0 ELSE CHOOSE i \in binding : \A j \in binding : j <= i

Visible(k) == IF Binder(k) = 0 THEN base[k] ELSE stack[Binder(k)][k]

BInit == base \in [Key -> Val] /\ stack = <<>>

\* A scope opens with no binding of its own.
Open == stack' = Append(stack, <<>>) /\ UNCHANGED base

\* A scope opens with one binding.
OpenWith(k) ==
    /\ Len(stack') = Len(stack) + 1 /\ k \in DOMAIN stack'[Len(stack')]
    /\ stack'[Len(stack')][k] \in Val
    /\ stack' = Append(stack, [x \in {k} |-> stack'[Len(stack')][k]])
    /\ UNCHANGED base

\* k gets some value in scope i, and no scope above it hides that binding.
Bind(i, k) ==
    /\ Binder(k) <= i
    /\ Len(stack') = Len(stack) /\ k \in DOMAIN stack'[i] /\ stack'[i][k] \in Val
    /\ stack' = [stack EXCEPT ![i] =
                    [x \in DOMAIN @ \cup {k} |-> IF x = k THEN stack'[i][k] ELSE @[x]]]
    /\ UNCHANGED base

\* k gets some value wherever it is bound now.
Assign(k) ==
    IF Binder(k) = 0
    THEN /\ base'[k] \in Val
         /\ base' = [base EXCEPT ![k] = base'[k]] /\ UNCHANGED stack
    ELSE Bind(Binder(k), k)

\* The innermost scope ends and its bindings with it.
Close ==
    /\ stack # <<>>
    /\ stack' = SubSeq(stack, 1, Len(stack) - 1)
    /\ UNCHANGED base

\* Every scope ends and everything stays as it is seen now.
Settle ==
    /\ base' = [k \in Key |-> Visible(k)]
    /\ stack' = <<>>

\* The innermost scope ends and its bindings pass to the scopes below.
Keep ==
    LET top == Len(stack)
        Below(k) == {i \in 1..top - 1 : k \in DOMAIN stack[i]}
        Lands(k, i) == k \in DOMAIN stack[top] /\ i \in Below(k) /\ \A j \in Below(k) : j <= i
    IN  /\ top > 0
        /\ stack' = [i \in 1..top - 1 |->
                        [k \in DOMAIN stack[i] |-> IF Lands(k, i) THEN stack[top][k] ELSE stack[i][k]]]
        /\ base' = [k \in Key |-> IF k \in DOMAIN stack[top] /\ Below(k) = {}
                                  THEN stack[top][k] ELSE base[k]]

\* Every scope ends and its bindings with it.
CloseAll == stack' = <<>> /\ UNCHANGED base

BNext ==
    \/ Open \/ Close \/ Settle \/ Keep \/ CloseAll
    \/ \E k \in Key : Assign(k) \/ OpenWith(k) \/ \E i \in 1..Len(stack) : Bind(i, k)

BSpec == BInit /\ [][BNext]_bvars
=============================================================================
