-------------------------------- MODULE Sheets --------------------------------
(***************************************************************************)
(* The bottom sheets of the home page and the Android back button: the     *)
(* stack of overlays (ui.store), the effects by which a BottomSheet enters *)
(* and leaves it, the sheets of QuickActions, and useBackButton with its   *)
(* count of the history's depth.                                           *)
(*                                                                         *)
(* What an event does to the sheets and the effects it sets off are one    *)
(* step; an await and a navigate(-1) are resolved later.  A change of the  *)
(* history is rendered later too: the router of main.tsx hands its state   *)
(* on in a transition, so other events come in between and, of several     *)
(* navigations, only the last is rendered; the effect of useBackButton     *)
(* runs with that rendering.  An open sheet that is not in the stack is    *)
(* asked to close at every render: registeredRef is set by the render that *)
(* follows its push.                                                       *)
(***************************************************************************)
EXTENDS Lists, SequencesExt

CONSTANTS
    Pages,       \* the tabs; "home" has the sheets
    MaxEntries,  \* bound: history entries
    MaxDepth,    \* bound: depthRef, which pops that are overtaken let grow
    MaxPops,     \* bound: navigations the history has not carried out yet
    MaxMissed    \* bound: pushes no effect has counted

ASSUME PagesAssumption == "home" \in Pages
ASSUME HistoryBounds == MaxEntries \in Nat /\ MaxDepth \in Nat /\ MaxPops \in Nat /\ MaxMissed \in Nat

VARIABLES
    entries,     \* the history up to the current page
    rendered,    \* the page that is rendered
    pending,     \* the kind of the last navigation if it is not rendered, or "none"
    uncounted,   \* history variable: the pushes that were never rendered
    depth,       \* depthRef
    pops,        \* calls of navigate(-1) not carried out yet
    exited,      \* App.exitApp was called
    shown,       \* the open sheets, the last one on top
    overlays,    \* ui.store: the ids of the stack
    submitting,  \* SendMoneySheet: the transfer or its fetchAll is awaited
    error,       \* SendMoneySheet shows why the transfer failed
    topUpBusy    \* QuickActions: the top-up is awaited

router == <<entries, rendered, pending, uncounted, depth, pops, exited>>
sheets == <<shown, overlays, submitting, error, topUpBusy>>
vars == <<router, sheets>>

Init ==
    /\ entries = <<"home">>
    /\ rendered = "home"
    /\ pending = "none"
    /\ uncounted = 0
    /\ depth = 0
    /\ pops = 0
    /\ exited = FALSE
    /\ shown = <<>>
    /\ overlays = <<>>
    /\ submitting = FALSE
    /\ error = FALSE
    /\ topUpBusy = FALSE

AtHome == ~exited /\ rendered = "home"
IsOpen(s) == s \in ToSet(shown)
OnTop(s) == AtHome /\ shown # <<>> /\ Last(shown) = s

-------------------------------------------------------------------------------
(* What a BottomSheet does.                                                *)

(* Mutation of Open: the effect pushes the id again when nothing changed.  *)
MutOpen(s) == shown' = Append(shown, s) /\ overlays' = Append(overlays, s)

(* open turns true: the effect pushes the sheet's id. *)
Open(s) ==
    IF IsOpen(s) THEN UNCHANGED <<shown, overlays>>
    ELSE shown' = Append(shown, s) /\ overlays' = Append(overlays, s)

(* Mutation of Close: the effect has no cleanup, the id stays in the stack.*)
MutClose(ss) ==
    /\ shown' = Without(shown, ss)
    /\ overlays' = overlays

(* open turns false, or the page is left: the effect's cleanup pops it. *)
Close(ss) ==
    /\ shown' = Without(shown, ss)
    /\ overlays' = Without(overlays, ss)

(* Mutation of Accepting: SendMoneySheet closes even while submitting.     *)
MutAccepting == ToSet(shown)

(* The sheets whose onClose does something. *)
Accepting == {s \in ToSet(shown) : s = "send" => ~submitting}

(* reset(), when SendMoneySheet closes. *)
Cleared(ss) == error' = (error /\ "send" \notin ss)

(* Several sheets are asked to close at once. *)
Dismiss(ss) ==
    /\ Close(ss \cap Accepting)
    /\ Cleared(ss \cap Accepting)

-------------------------------------------------------------------------------
(* What the user does, and what the awaited calls answer.                  *)

Tap(s) ==
    /\ AtHome /\ shown = <<>>
    /\ Open(s)
    /\ UNCHANGED <<router, submitting, error, topUpBusy>>

StartTopUp ==
    /\ AtHome /\ shown = <<>> /\ ~topUpBusy
    /\ topUpBusy' = TRUE
    /\ UNCHANGED <<router, shown, overlays, submitting, error>>

(* Done or failed, a message says so, over whatever is open. *)
TopUpAnswered ==
    /\ topUpBusy
    /\ topUpBusy' = FALSE
    /\ Open("message")
    /\ UNCHANGED <<router, submitting, error>>

Submit ==
    /\ OnTop("send") /\ ~submitting
    /\ submitting' = TRUE
    /\ error' = FALSE
    /\ UNCHANGED <<router, shown, overlays, topUpBusy>>

(* The transfer and its fetchAll are through: reset and onClose. *)
Sent ==
    /\ submitting
    /\ submitting' = FALSE
    /\ Close({"send"})
    /\ Cleared({"send"})
    /\ UNCHANGED <<router, topUpBusy>>

(* The sheet shows the error; one that left the stack meanwhile is asked   *)
(* to close by the same render, and the error goes with it.                *)
SendFailed ==
    /\ submitting
    /\ submitting' = FALSE
    /\ IF "send" \in ToSet(overlays) THEN error' = TRUE /\ UNCHANGED <<shown, overlays>>
       ELSE Close({"send"}) /\ error' = FALSE
    /\ UNCHANGED <<router, topUpBusy>>

(* The form is filled in wrongly. *)
Invalid ==
    /\ OnTop("send") /\ ~submitting
    /\ error' = TRUE
    /\ UNCHANGED <<router, shown, overlays, submitting, topUpBusy>>

(* A press outside asks the sheet on top, Escape every open one. *)
PressOutside ==
    /\ AtHome /\ shown # <<>>
    /\ Dismiss({Last(shown)})
    /\ UNCHANGED <<router, submitting, topUpBusy>>

Escape ==
    /\ AtHome /\ shown # <<>>
    /\ Dismiss(ToSet(shown))
    /\ UNCHANGED <<router, submitting, topUpBusy>>

-------------------------------------------------------------------------------
(* Navigation: the history changes at once, the page when it is rendered.  *)

(* A push whose effect has not run; the next navigation overtakes it. *)
Awaited == IF pending = "PUSH" THEN 1 ELSE 0

Navigates(kind) ==
    /\ uncounted + Awaited <= MaxMissed
    /\ pending' = kind
    /\ uncounted' = uncounted + Awaited
    /\ UNCHANGED <<rendered, depth, exited, sheets>>

(* A tab, or Cobrar: sheets cover them both.  Tapped again before the      *)
(* rendering, they push again.                                             *)
Navigate(page) ==
    /\ ~exited /\ shown = <<>> /\ page # rendered
    /\ Len(entries) < MaxEntries /\ depth < MaxDepth
    /\ entries' = Append(entries, page)
    /\ Navigates("PUSH")
    /\ UNCHANGED pops

(* The tab of the page that is rendered replaces the current entry. *)
Retap ==
    /\ ~exited /\ shown = <<>>
    /\ entries' = Append(Front(entries), rendered)
    /\ Navigates("REPLACE")
    /\ UNCHANGED pops

(* The history carries out a navigate(-1). *)
Popped ==
    /\ ~exited /\ pops > 0 /\ Len(entries) > 1
    /\ pops' = pops - 1
    /\ entries' = Front(entries)
    /\ Navigates("POP")

(* Before its first entry there is nothing. *)
PopsNothing ==
    /\ ~exited /\ pops > 0 /\ Len(entries) = 1
    /\ pops' = pops - 1
    /\ UNCHANGED <<entries, rendered, pending, uncounted, depth, exited, sheets>>

(* Mutation of Counted: a REPLACE counts as a POP.                         *)
MutCounted == IF pending = "PUSH" THEN depth + 1 ELSE Max({0, depth - 1})

(* The effect of useBackButton on depthRef. *)
Counted ==
    CASE pending = "PUSH" -> depth + 1
      [] pending = "POP"  -> Max({0, depth - 1})
      [] OTHER            -> depth

(* Leaving the page unmounts the sheets; what they awaited finds nobody. *)
Unmount ==
    /\ Close({"send", "message"})
    /\ submitting' = FALSE /\ error' = FALSE /\ topUpBusy' = FALSE

(* The last navigation is rendered, and the effects run. *)
Render ==
    /\ ~exited /\ pending # "none"
    /\ rendered' = Last(entries)
    /\ depth' = Counted
    /\ pending' = "none"
    /\ IF AtHome /\ Last(entries) # "home" THEN Unmount ELSE UNCHANGED sheets
    /\ UNCHANGED <<entries, uncounted, pops, exited>>

(* Mutation of ClosesOverlay: the stack is taken for empty.                *)
MutClosesOverlay == FALSE

ClosesOverlay == overlays # <<>>

(* closeTopOverlay: the sheet whose id went closes, if it accepts. *)
BackClosesSheet ==
    /\ ~exited /\ ClosesOverlay
    /\ LET top == Last(overlays)
       IN IF top \in Accepting THEN Dismiss({top})
          ELSE overlays' = Front(overlays) /\ UNCHANGED <<shown, error>>
    /\ UNCHANGED <<router, submitting, topUpBusy>>

BackNavigates ==
    /\ ~exited /\ ~ClosesOverlay /\ depth > 0 /\ pops < MaxPops
    /\ pops' = pops + 1
    /\ UNCHANGED <<entries, rendered, pending, uncounted, depth, exited, sheets>>

BackExits ==
    /\ ~exited /\ ~ClosesOverlay /\ depth = 0
    /\ exited' = TRUE
    /\ UNCHANGED <<entries, rendered, pending, uncounted, depth, pops, sheets>>

Next ==
    \/ \E s \in {"send", "message"} : Tap(s)
    \/ StartTopUp \/ TopUpAnswered
    \/ Submit \/ Sent \/ SendFailed \/ Invalid
    \/ PressOutside \/ Escape
    \/ \E page \in Pages : Navigate(page)
    \/ Retap \/ Popped \/ PopsNothing \/ Render
    \/ BackClosesSheet \/ BackNavigates \/ BackExits

Spec == Init /\ [][Next]_vars

-------------------------------------------------------------------------------
(* Properties.                                                             *)

TypeOK ==
    /\ entries \in Seq(Pages) /\ entries # <<>> /\ rendered \in Pages
    /\ pending \in {"none", "PUSH", "POP", "REPLACE"} /\ uncounted \in Nat
    /\ depth \in Nat /\ pops \in 0 .. MaxPops /\ exited \in BOOLEAN
    /\ shown \in Seq({"send", "message"}) /\ IsInjective(shown)
    /\ overlays \in Seq({"send", "message"}) /\ IsInjective(overlays)
    /\ \A b \in {submitting, error, topUpBusy} : b \in BOOLEAN

(* The stack holds the open sheets in the order they lie on each other: a  *)
(* press of back takes the one on top.  Only a sheet that is submitting    *)
(* may be open without being in it, after a press of back it refused; a    *)
(* sheet that is closed keeps nothing of an attempt that was made in it.   *)
StackMatchesSheets ==
    /\ overlays = Without(shown, ToSet(shown) \ ToSet(overlays))
    /\ ToSet(shown) \ ToSet(overlays) \subseteq (IF submitting THEN {"send"} ELSE {})
    /\ "send" \notin ToSet(shown) => ~error /\ ~submitting

(* "si hay uno abierto, atras lo cierra y NO navega": back leaves the page *)
(* or the app under an open sheet only when that sheet is submitting.      *)
BackSparesSheets ==
    [][pops' > pops \/ exited' # exited => ToSet(shown) \subseteq
          (IF submitting THEN {"send"} ELSE {})]_vars

(* "si no hay overlay ni historial interno, atras sale de la app" holds up *)
(* to the pushes the effect of useBackButton did not see: the app is left  *)
(* above its first page by no more entries than pushes that were overtaken *)
(* before their rendering, or still wait for it.  Pops that are delayed,   *)
(* overtaken or find nothing and replaced entries never add to that.       *)
ExitsAtRoot == exited => Len(entries) - 1 <= uncounted + Awaited
===============================================================================
