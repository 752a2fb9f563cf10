-------------------------------- MODULE Lists --------------------------------
(***************************************************************************)
(* Lists of the web app that lose elements: the stack of overlays of       *)
(* ui.store, the timers that wait in the mock.  The others keep their      *)
(* order.                                                                  *)
(***************************************************************************)
EXTENDS Integers, Sequences

(* s without the elements of xs: filter, one element after another. *)
Without(s, xs) ==
    LET kept[n \in 0 .. Len(s)] ==
          IF n = 0 THEN <<>>
          ELSE IF s[n] \in xs THEN kept[n - 1]
          ELSE Append(kept[n - 1], s[n])
    IN kept[Len(s)]
===============================================================================
