---------------------------- MODULE Redirection ----------------------------
(***************************************************************************)
(* Descriptor slots and the frames that undo a command's redirections      *)
(* (redirection.rs, descriptors.rs, resource.rs).                          *)
(*                                                                         *)
(* A slot's live value is replaced in place.  A command or group that has  *)
(* redirections pushes a frame first, and the frame keeps what each slot   *)
(* held before its first replacement.  The scope of the command remembers  *)
(* how many frames there were (its mark) and unwinds back to that number   *)
(* when it is left, whichever way it is left.                              *)
(*                                                                         *)
(* An open file description is a member of Files or the terminal the shell *)
(* started with; what is written to it is not modelled.                    *)
(***************************************************************************)
EXTENDS Naturals, Sequences

CONSTANTS
    Files,      \* file descriptions a redirection can open
    Terminal,   \* the description the standard slots start with
    Closed,     \* a slot without a description
    Nameable,   \* the slot numbers a script writes
    Inherited,  \* LogicalDescriptor::INHERITED, where {name} allocation starts
    Limit,      \* RLIMIT_NOFILE: no slot at or above it is usable
    MaxScopes,  \* bound: nested commands
    MaxList     \* bound: redirections of one command

ASSUME RedirectionAssumption ==
    /\ Inherited \in Nat /\ Limit \in Nat /\ 2 < Inherited /\ Inherited <= Limit
    /\ Nameable \subseteq Nat
    /\ Closed \notin Files /\ Terminal # Closed
    /\ MaxScopes \in Nat /\ MaxList \in Nat \ {0}

STDIN == 0
Slot == 0..Limit - 1
Content == Files \cup {Terminal, Closed}
NoSlot == Limit + 1     \* the variable behind {name} holds no number
NoBuffer == "none"

VARIABLES
    slots,      \* DescriptorTable: what each slot holds
    frames,     \* RedirectionStack: saved_descriptors of each frame, innermost last
    scopes,     \* ResourceScope of each command being evaluated, innermost last
    named,      \* the number in the variable behind {name}
    buffered,   \* the description the parser's buffered standard input came from
    panicked    \* an index went below zero

rvars == <<slots, frames, scopes, named, buffered, panicked>>

Scope == [mark : 0..MaxScopes, owns : BOOLEAN, left : 0..MaxList,
          kind : {"group", "exec", "text", "child"},
          phase : {"opening", "running", "failed"}]

Top == scopes[Len(scopes)]
Idle == scopes # <<>> => Top.phase = "running"
Room == ~panicked /\ Len(scopes) < MaxScopes

RInit ==
    /\ slots = [d \in Slot |-> IF d < 3 THEN Terminal ELSE Closed]
    /\ frames = <<>> /\ scopes = <<>>
    /\ named = NoSlot /\ buffered = NoBuffer
    /\ panicked = FALSE

-----------------------------------------------------------------------------
\* Opening a scope.

\* ResourceScope::apply_redirections with an empty list: a mark and no frame.
EnterPlain(kind) ==
    /\ Room /\ Idle
    /\ scopes' = Append(scopes, [mark |-> Len(frames), owns |-> FALSE, left |-> 0, kind |-> kind,
                                 phase |-> "running"])
    /\ UNCHANGED <<slots, frames, named, buffered, panicked>>

\* push_redirections with a list: an empty frame to save into.
Enter(kind) ==
    /\ Room /\ Idle
    /\ frames' = Append(frames, <<>>)
    /\ scopes' = Append(scopes, [mark |-> Len(frames), owns |-> TRUE, left |-> MaxList, kind |-> kind,
                                 phase |-> "opening"])
    /\ UNCHANGED <<slots, named, buffered, panicked>>

\* prepare_fork_child: the parent's frames are dropped, the slots stay, and the
\* child never returns through the parent's scopes.  A subshell that is run in
\* place of its shell does the same where no scope encloses it: a group, a
\* function and the text of eval all withhold the context that allows it.
ForkChild ==
    /\ Room /\ Idle
    /\ frames' = <<>>
    /\ scopes' = <<[mark |-> 0, owns |-> FALSE, left |-> MaxList, kind |-> "child", phase |-> "opening"]>>
    /\ UNCHANGED <<slots, named, buffered, panicked>>

-----------------------------------------------------------------------------
\* One redirection of the list.

SaveFrame == IF Top.kind = "child" THEN 0 ELSE Len(frames)   \* RedirectionMode::Apply saves nothing

\* Mutant: a second replacement of the same slot overwrites what the frame kept.
SavedAgain(d) ==
    IF SaveFrame = 0 THEN frames
    ELSE [frames EXCEPT ![SaveFrame] =
            [x \in DOMAIN @ \cup {d} |-> IF x = d THEN slots[d] ELSE @[x]]]

\* What the frame keeps once slot d is about to be replaced.
Saved(d) ==
    IF SaveFrame = 0 \/ d \in DOMAIN frames[SaveFrame] THEN frames
    ELSE [frames EXCEPT ![SaveFrame] =
            [x \in DOMAIN @ \cup {d} |-> IF x = d THEN slots[d] ELSE @[x]]]

\* allocate_descriptor: the lowest closed slot from Inherited up.
Free == {d \in Inherited..Limit - 1 : slots[d] = Closed}
Allocated == CHOOSE d \in Free : \A e \in Free : d <= e

Opening == ~panicked /\ scopes # <<>> /\ Top.phase = "opening" /\ Top.left > 0
Now(phase) == scopes' = [scopes EXCEPT ![Len(scopes)].phase = phase, ![Len(scopes)].left = 0]
Fail == Now("failed")
OneDone == scopes' = [scopes EXCEPT ![Len(scopes)].left = @ - 1]

\* Mutant: a replaced standard input keeps the bytes read from the old one.
ResetNever(d) == UNCHANGED buffered

\* A replacement of standard input makes what the parser had buffered stale.
ResetInput(d) == buffered' = IF d = STDIN THEN NoBuffer ELSE buffered

\* The list cannot go on: an unopenable file, a closed source, a slot past the
\* limit, no free slot, {name}<&- without a number, an ambiguous word.
RedirectRefused ==
    /\ Opening
    /\ Fail
    /\ UNCHANGED <<slots, frames, named, buffered, panicked>>

\* install_redirection fails after the slot was saved (no descriptor to move to).
InstallFails(d) ==
    /\ Opening /\ d \in Nameable \cap Slot
    /\ frames' = Saved(d) /\ ResetInput(d)
    /\ Fail
    /\ UNCHANGED <<slots, named, panicked>>

\* n>file, n<&m, n>&-: a number the script wrote.
RedirectFixed(d, v) ==
    /\ Opening
    /\ d \in Nameable \cap Slot
    /\ v \in Files \cup {Closed} \cup {slots[e] : e \in Slot \ {d}}
    /\ frames' = Saved(d) /\ ResetInput(d)
    /\ slots' = [slots EXCEPT ![d] = v]
    /\ OneDone
    /\ UNCHANGED <<named, panicked>>

\* n>&n changes nothing, open or not.
RedirectNoop ==
    /\ Opening
    /\ OneDone
    /\ UNCHANGED <<slots, frames, named, buffered, panicked>>

\* {name}>file: the slot is the script's from here on and no frame saves it;
\* the variable gets the number last, and may refuse it.
RedirectAllocated(v, assigned) ==
    /\ Opening
    /\ Free # {}
    /\ v \in (Files \cup {slots[e] : e \in Slot}) \ {Closed}
    /\ slots' = [slots EXCEPT ![Allocated] = v]
    /\ IF assigned THEN named' = Allocated /\ OneDone
                   ELSE Fail /\ UNCHANGED named
    /\ UNCHANGED <<frames, buffered, panicked>>

\* {name}<&-: the number is read from the variable, and the slot is saved.
CloseNamed ==
    /\ Opening
    /\ named \in Slot
    /\ frames' = Saved(named) /\ ResetInput(named)
    /\ slots' = [slots EXCEPT ![named] = Closed]
    /\ OneDone
    /\ UNCHANGED <<named, panicked>>

\* The list is done.
AllApplied ==
    /\ ~panicked /\ scopes # <<>> /\ Top.phase = "opening" /\ Top.left < MaxList
    /\ Now("running")
    /\ UNCHANGED <<slots, frames, named, buffered, panicked>>

-----------------------------------------------------------------------------
\* Leaving a scope.

\* pop_redirection(discard = false) on the innermost frame.
Restored(kept) == [d \in Slot |-> IF d \in DOMAIN kept THEN kept[d] ELSE slots[d]]
Shorter == SubSeq(frames, 1, Len(frames) - 1)

\* unwind_redirections pops until the number of frames is the mark, and
\* subtracts one from an empty stack when there are fewer.
Leave(retain) ==
    /\ ~panicked /\ scopes # <<>> /\ Top.phase # "opening"
    /\ retain => Top.kind = "exec" /\ Top.owns
    /\ scopes' = SubSeq(scopes, 1, Len(scopes) - 1)
    /\ UNCHANGED named
    /\ CASE Len(frames) = Top.mark -> UNCHANGED <<slots, frames, buffered, panicked>>
         [] Len(frames) > Top.mark ->
              /\ frames' = Shorter
              /\ IF retain THEN UNCHANGED <<slots, buffered>>
                 ELSE /\ slots' = Restored(frames[Len(frames)])
                      /\ buffered' = IF STDIN \in DOMAIN frames[Len(frames)] THEN NoBuffer ELSE buffered
              /\ UNCHANGED panicked
         [] OTHER -> panicked' = TRUE /\ UNCHANGED <<slots, frames, buffered>>

\* A child scope ends with its process; the one left standing is not modelled.
CommandEnds(retain) == (Len(scopes) = 1 => Top.kind # "child") /\ Leave(retain)

\* evaluate_interactive_sequence on an expansion error in the text of eval:
\* clear_evaluation_resources restores every frame, the enclosing scopes' too.
OldestSaved(d) == {i \in 1..Len(frames) : d \in DOMAIN frames[i]}
RecoverInteractive ==
    /\ ~panicked /\ scopes # <<>> /\ Top.kind = "text" /\ Top.phase = "running"
    /\ slots' = [d \in Slot |->
                    IF OldestSaved(d) = {} THEN slots[d]
                    ELSE frames[CHOOSE i \in OldestSaved(d) : \A j \in OldestSaved(d) : i <= j][d]]
    /\ frames' = <<>>
    /\ buffered' = IF OldestSaved(STDIN) = {} THEN buffered ELSE NoBuffer
    /\ UNCHANGED <<scopes, named, panicked>>

\* The parser reads ahead from standard input.
ReadAhead ==
    /\ ~panicked /\ Idle /\ slots[STDIN] # Closed
    /\ buffered' = slots[STDIN]
    /\ UNCHANGED <<slots, frames, scopes, named, panicked>>

RNext ==
    \/ \E kind \in {"group", "exec", "text"} : EnterPlain(kind) \/ Enter(kind)
    \/ ForkChild
    \/ RedirectRefused \/ RedirectNoop \/ CloseNamed \/ AllApplied
    \/ \E d \in Slot : InstallFails(d)
    \/ \E d \in Slot, v \in Content : RedirectFixed(d, v)
    \/ \E v \in Content, assigned \in BOOLEAN : RedirectAllocated(v, assigned)
    \/ \E retain \in BOOLEAN : CommandEnds(retain)
    \/ RecoverInteractive
    \/ ReadAhead

RSpec == RInit /\ [][RNext]_rvars

-----------------------------------------------------------------------------
\* Properties.

\* The type of the state: frames save known slots, scopes have their fields.
RTypeOK ==
    /\ slots \in [Slot -> Content]
    /\ \A i \in DOMAIN frames : DOMAIN frames[i] \subseteq Slot /\ \A d \in DOMAIN frames[i] : frames[i][d] \in Content
    /\ \A i \in DOMAIN scopes : scopes[i] \in Scope
    /\ named \in Slot \cup {NoSlot}
    /\ buffered \in Content \cup {NoBuffer}
    /\ panicked \in BOOLEAN

\* The value slot d has under the frames above frame i.
SeenAt(i, d) ==
    LET above == {j \in i + 1..Len(frames) : d \in DOMAIN frames[j]}
    IN  IF above = {} THEN slots[d] ELSE frames[CHOOSE j \in above : \A k \in above : j <= k][d]

Slots == INSTANCE Bindings WITH
    Key <- Slot, Val <- Content,
    base <- [d \in Slot |-> SeenAt(0, d)],
    stack <- [i \in 1..Len(frames) |-> [d \in DOMAIN frames[i] |-> SeenAt(i, d)]]

\* redirection.rs: saving the old values and putting them back implements scoped
\* bindings.  Whatever order redirections, failures part way, exec, {name} slots
\* and nested commands come in, leaving a scope undoes exactly what it redirected.
RedirectionsAreScoped == Slots!BSpec

\* redirection.rs:255 and 786: bytes the parser buffered from standard input are
\* bytes of what slot 0 holds now, through every replacement and restoration.
BufferFollowsStdin == buffered # NoBuffer => buffered = slots[STDIN]

\* resource.rs:84, evaluation.rs:600: a scope finds the frames it left behind it,
\* so that unwinding to its mark never runs past the bottom of the stack.
MarkIsReachable == ~panicked
=============================================================================
