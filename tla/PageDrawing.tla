---------------------------- MODULE PageDrawing ----------------------------
(***************************************************************************)
(* What drawing a page promises, whatever the pauses on the way: the       *)
(* objects that are to be drawn reach the device one after the other, in   *)
(* the order of their layers and of their places in a layer, each of them  *)
(* once and each under its own clip; "done" is said only when none is left. *)
(* A drawing may be given up at any time.                                  *)
(***************************************************************************)
EXTENDS Integers, Sequences

CONSTANT Plans   \* a plan gives every position <<layer, place>> that is to
                 \* be drawn the clip it has to be drawn under

VARIABLES
  plan,   \* what is to be drawn
  left,   \* the positions that have not been drawn yet
  out,    \* what has reached the device: [at, clip] after [at, clip]
  state   \* "drawing", "done" or "gone"

vars == <<plan, left, out, state>>

Before(p, q) == p[1] < q[1] \/ (p[1] = q[1] /\ p[2] < q[2])

Init ==
  /\ plan \in Plans
  /\ left = DOMAIN plan
  /\ out = <<>>
  /\ state = "drawing"

Draw(p) ==
  /\ state = "drawing"
  /\ p \in left
  /\ \A q \in left : q = p \/ Before(p, q)
  /\ left' = left \ {p}
  /\ out' = Append(out, [at |-> p, clip |-> plan[p]])
  /\ UNCHANGED <<plan, state>>

Finish ==
  /\ state = "drawing" /\ left = {}
  /\ state' = "done"
  /\ UNCHANGED <<plan, left, out>>

GiveUp ==
  /\ state' = "gone"
  /\ UNCHANGED <<plan, left, out>>

Next == (\E p \in left : Draw(p)) \/ Finish \/ GiveUp

Spec == Init /\ [][Next]_vars
=============================================================================
