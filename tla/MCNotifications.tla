-------------------------- MODULE MCNotifications ---------------------------
(***************************************************************************)
(* Two clients with a window each.  A behaviour draws its budget: calls    *)
(* before and against each other, the user's clicks, or windows that ask   *)
(* for attention.                                                          *)
(***************************************************************************)
EXTENDS Notifications, TLC

CONSTANTS s1, s2, w1, w2

SenderSet   == {s1, s2}
OwnedWindow == (s1 :> w1) @@ (s2 :> w2)

Elsewhere == (w1 :> "elsewhere") @@ (w2 :> "elsewhere")
PlacementSet == {Elsewhere, [Elsewhere EXCEPT ![w1] = "displayed"]}

Shape(timed, resident, default) == [timed |-> timed, resident |-> resident, default |-> default]
ShapeSet == {Shape(TRUE, FALSE, TRUE), Shape(FALSE, TRUE, FALSE)}

Budget(notify, close, click, clear, move, demand, leave) ==
    [notify |-> notify, close |-> close, click |-> click, clear |-> clear, move |-> move,
     demand |-> demand, leave |-> leave]

BudgetSet ==
    { Budget(2, 1, 0, 0, 0, 0, 0),   \* calls that replace and close one another
      Budget(2, 0, 1, 0, 0, 0, 0),   \* a click while a replacement is on its way
      Budget(2, 0, 0, 0, 1, 0, 0),   \* the user moves between the two
      Budget(1, 1, 2, 0, 0, 0, 0),   \* clicks against each other and a client
      Budget(1, 0, 1, 1, 0, 0, 1),   \* the panel is cleared, the window leaves
      Budget(0, 0, 0, 0, 1, 2, 1),   \* demands for attention
      Budget(1, 0, 1, 0, 0, 1, 0) }
=============================================================================
