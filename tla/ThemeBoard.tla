----------------------------- MODULE ThemeBoard -----------------------------
(***************************************************************************)
(* theme-board.js and the routes under /themes: the page of theme cards    *)
(* and the position tray, and the associations in the database.  A drop,   *)
(* an assignment from the menu and a removal each send a request and       *)
(* change the page when its answer comes; several may be under way, and    *)
(* the server handles them and the answers arrive in any order.            *)
(*                                                                         *)
(* A chip carries its position's id and, apart from it, the ticker and the *)
(* verdict it displays; the pair comes from one position, named `shown`.   *)
(* Verdicts are those of the time the page was rendered.                   *)
(***************************************************************************)
EXTENDS Integers, FiniteSets

CONSTANTS
  Position,
  Theme,       \* ids of themes, each used once
  VerdictOf,   \* verdict of each position: "sell", "trim" or "hold"
  Slot,        \* requests of the page that may be under way at once
  MaxSent,     \* bound: changes asked for
  None

VARIABLES
  themes,   \* ids in table themes
  unused,   \* ids not given out yet
  tagged,   \* position_themes: pairs <<position, theme>>
  cards,    \* themes with a card on the page
  chips,    \* chips on cards: [theme, position, shown]
  heat,     \* data-heat of each card
  tray,     \* data-themes of each tray chip
  drag,     \* dragState: [position, shown], and whether a drag is going on
  sent,     \* requests under way, by slot
  asked,    \* changes asked for so far
  unsure    \* history: pairs of which page and database may differ

server == <<themes, unused, tagged>>
page   == <<cards, chips, heat, tray>>
vars   == <<server, page, drag, sent, asked, unsure>>

Pairs == Position \X Theme

Request == [op : {"drop", "assign", "remove"}, position : Position, theme : Theme,
            stage : {"sent", "ok", "failed"}, ours : BOOLEAN]

BoardAssumption ==
  /\ IsFiniteSet(Position) /\ MaxSent \in Nat /\ None \notin Request

NoDrag == [position |-> None, shown |-> None, active |-> FALSE]

-----------------------------------------------------------------------------
\* How many of the positions have the verdict.
Count(positions, verdict) == Cardinality({p \in positions : VerdictOf[p] = verdict})

\* Mutant of ComputeHeatLevel: half of the positions is not yet most.
ComputeHeatLevelOverHalf(positions) ==
  LET sell == Count(positions, "sell")
      trim == Count(positions, "trim")
      total == Cardinality(positions) IN
  CASE total = 0 -> 0
    [] sell > 0  -> IF 2 * sell > total THEN 5 ELSE 4
    [] sell = 0 /\ trim > 0 -> IF 2 * trim > total THEN 3 ELSE 2
    [] OTHER -> 1

\* _compute_heat_level: the heat of a card the server renders.
ComputeHeatLevel(positions) ==
  LET sell == Count(positions, "sell")
      trim == Count(positions, "trim")
      total == Cardinality(positions) IN
  CASE total = 0 -> 0
    [] sell > 0  -> IF 2 * sell >= total THEN 5 ELSE 4
    [] sell = 0 /\ trim > 0 -> IF 2 * trim >= total THEN 3 ELSE 2
    [] OTHER -> 1

\* updateHeatIndicator: the same from the verdicts the chips of a card show.
HeatOf(cs, t) ==
  LET on == {c \in cs : c.theme = t}
      Share(v) == {c \in on : VerdictOf[c.shown] = v}
      Most(part) == 2 * Cardinality(part) >= Cardinality(on) IN
  IF on = {} THEN 0
  ELSE IF Share("sell") # {} THEN (IF Most(Share("sell")) THEN 5 ELSE 4)
  ELSE IF Share("trim") # {} THEN (IF Most(Share("trim")) THEN 3 ELSE 2)
  ELSE 1

InTheme(t) == {p \in Position : <<p, t>> \in tagged}
ThemesOf(p) == {t \in Theme : <<p, t>> \in tagged}

\* _group_enriched_positions_by_theme and portfolio_themes.html.
Rendered ==
  /\ cards' = themes'
  /\ chips' = {[theme |-> pair[2], position |-> pair[1], shown |-> pair[1]] : pair \in tagged'}
  /\ heat' = [t \in Theme |-> ComputeHeatLevel({p \in Position : <<p, t>> \in tagged'})]
  /\ tray' = [p \in Position |-> {t \in Theme : <<p, t>> \in tagged'}]

Init ==
  /\ themes \in SUBSET Theme
  /\ unused = Theme \ themes
  /\ tagged \in SUBSET (Position \X themes)
  /\ cards = themes
  /\ chips = {[theme |-> pair[2], position |-> pair[1], shown |-> pair[1]] : pair \in tagged}
  /\ heat = [t \in Theme |-> ComputeHeatLevel(InTheme(t))]
  /\ tray = [p \in Position |-> ThemesOf(p)]
  /\ drag = NoDrag
  /\ sent = [s \in Slot |-> None]
  /\ asked = 0
  /\ unsure = {}

-----------------------------------------------------------------------------
UnderWay == {s \in Slot : sent[s] # None}

PairOf(r) == <<r.position, r.theme>>

\* postJson: a request goes out.  Two of one pair at a time leave it open which
\* the database and which the page sees last.
Send(s, op, p, t) ==
  /\ sent[s] = None
  /\ asked < MaxSent
  /\ asked' = asked + 1
  /\ sent' = [sent EXCEPT ![s] =
       [op |-> op, position |-> p, theme |-> t, stage |-> "sent", ours |-> TRUE]]
  /\ unsure' = IF \E o \in UnderWay : PairOf(sent[o]) = <<p, t>>
               THEN unsure \cup {<<p, t>>} ELSE unsure

\* onDragStart, on a tray chip or on a chip of a card.
DragStart ==
  /\ ~drag.active
  /\ \E p \in Position, shown \in Position :
       /\ shown = p \/ \E c \in chips : c.position = p /\ c.shown = shown
       /\ drag' = [position |-> p, shown |-> shown, active |-> TRUE]
  /\ UNCHANGED <<server, page, sent, asked, unsure>>

\* onDragEnd outside every zone.
DragEnd ==
  /\ drag.active
  /\ drag' = [drag EXCEPT !.active = FALSE]
  /\ UNCHANGED <<server, page, sent, asked, unsure>>

\* onDropZone up to its request.
Drop(s, t) ==
  /\ drag.active /\ t \in cards
  /\ Send(s, "drop", drag.position, t)
  /\ drag' = [drag EXCEPT !.active = FALSE]
  /\ UNCHANGED <<server, page>>

\* doAssign, for a theme the menu does not show as assigned.
Assign(s, p, t) ==
  /\ t \in cards /\ t \notin tray[p]
  /\ Send(s, "assign", p, t)
  /\ UNCHANGED <<server, page, drag>>

\* handleRemoveClick: the button of the chip is disabled until the answer.
RemoveClick(s, c) ==
  /\ c \in chips
  /\ ~\E o \in UnderWay : /\ sent[o].op = "remove" /\ sent[o].ours
                          /\ PairOf(sent[o]) = <<c.position, c.theme>>
  /\ Send(s, "remove", c.position, c.theme)
  /\ UNCHANGED <<server, page, drag>>

-----------------------------------------------------------------------------
\* The page has gone or the answer is lost: nobody will see it.
Answered(s, stage) ==
  IF sent[s].ours THEN [sent EXCEPT ![s].stage = stage] ELSE [sent EXCEPT ![s] = None]

\* add_position_to_theme, remove_position_from_theme: 404 for a theme that is
\* gone and for an association that is not there.
Handle(s) ==
  /\ s \in UnderWay /\ sent[s].stage = "sent"
  /\ LET pair == PairOf(sent[s])
         found == IF sent[s].op = "remove" THEN pair \in tagged ELSE sent[s].theme \in themes IN
     /\ tagged' = IF ~found THEN tagged
                  ELSE IF sent[s].op = "remove" THEN tagged \ {pair} ELSE tagged \cup {pair}
     /\ sent' = Answered(s, IF found THEN "ok" ELSE "failed")
  /\ UNCHANGED <<themes, unused, page, drag, asked, unsure>>

\* The request fails before it changes anything.
Fails(s) ==
  /\ s \in UnderWay /\ sent[s].stage = "sent"
  /\ sent' = Answered(s, "failed")
  /\ UNCHANGED <<server, page, drag, asked, unsure>>

\* The answer does not arrive: fetch throws although the change was made.
AnswerLost(s) ==
  /\ s \in UnderWay /\ sent[s].stage = "ok"
  /\ sent' = [sent EXCEPT ![s] = None]
  /\ unsure' = unsure \cup {PairOf(sent[s])}
  /\ UNCHANGED <<server, page, drag, asked>>

\* updateTrayChipThemes.  The section a tray chip is moved to follows from it.
SetTray(p, ts) == tray' = [tray EXCEPT ![p] = ts]

\* addChipToZone, unless the zone has a chip of the position, then
\* updateHeatIndicator.
AddChip(p, t, shown) ==
  /\ chips' = IF \E c \in chips : c.position = p /\ c.theme = t THEN chips
              ELSE chips \cup {[theme |-> t, position |-> p, shown |-> shown]}
  /\ heat' = [heat EXCEPT ![t] = HeatOf(chips', t)]

\* Mutant of OnAdded: the tray is forgotten.
OnAddedCardOnly(s) ==
  /\ s \in UnderWay /\ sent[s].stage = "ok" /\ sent[s].op \in {"drop", "assign"}
  /\ AddChip(sent[s].position, sent[s].theme,
             IF sent[s].op = "drop" THEN drag.shown ELSE sent[s].position)
  /\ sent' = [sent EXCEPT ![s] = None]
  /\ UNCHANGED <<server, cards, tray, drag, asked, unsure>>

\* The answer to a drop or an assignment.  onDropZone kept the position's id,
\* but takes ticker and verdict from the drag state of now.
OnAdded(s) ==
  LET r == sent[s] IN
  /\ s \in UnderWay /\ r.stage = "ok" /\ r.op \in {"drop", "assign"}
  /\ AddChip(r.position, r.theme, IF r.op = "drop" THEN drag.shown ELSE r.position)
  /\ SetTray(r.position, tray[r.position] \cup {r.theme})
  /\ sent' = [sent EXCEPT ![s] = None]
  /\ UNCHANGED <<server, cards, drag, asked, unsure>>

\* The answer to a removal: removeChipFromZone, with the heat of the card.
OnRemoved(s) ==
  LET r == sent[s] IN
  /\ s \in UnderWay /\ r.stage = "ok" /\ r.op = "remove"
  /\ chips' = {c \in chips : <<c.position, c.theme>> # PairOf(r)}
  /\ heat' = [heat EXCEPT ![r.theme] = HeatOf(chips', r.theme)]
  /\ SetTray(r.position, tray[r.position] \ {r.theme})
  /\ sent' = [sent EXCEPT ![s] = None]
  /\ UNCHANGED <<server, cards, drag, asked, unsure>>

\* An error: a toast, and the page stays as it is.
OnError(s) ==
  /\ s \in UnderWay /\ sent[s].stage = "failed"
  /\ sent' = [sent EXCEPT ![s] = None]
  /\ UNCHANGED <<server, page, drag, asked, unsure>>

-----------------------------------------------------------------------------
\* The page is loaded again: answers to requests under way will not be seen.
Left ==
  /\ drag' = NoDrag
  /\ sent' = [s \in Slot |-> IF sent[s] # None /\ sent[s].stage = "sent"
                              THEN [sent[s] EXCEPT !.ours = FALSE] ELSE None]
  /\ unsure' = {PairOf(sent[s]) : s \in {o \in UnderWay : sent[o].stage = "sent"}}

Reload ==
  /\ UNCHANGED server
  /\ Rendered
  /\ Left
  /\ UNCHANGED asked

\* create_theme and appendNewThemeCard: an empty card without a reload.
CreateTheme(t) ==
  /\ t \in unused
  /\ themes' = themes \cup {t} /\ unused' = unused \ {t}
  /\ cards' = cards \cup {t}
  /\ heat' = [heat EXCEPT ![t] = 0]
  /\ UNCHANGED <<tagged, chips, tray, drag, sent, asked, unsure>>

\* delete_theme, from a form of the page: the answer loads the page again.
DeleteTheme(t) ==
  /\ t \in themes /\ t \in cards
  /\ themes' = themes \ {t}
  /\ tagged' = {pair \in tagged : pair[2] # t}
  /\ UNCHANGED unused
  /\ Rendered
  /\ Left
  /\ UNCHANGED asked

\* edit_position or a board in another tab changes an association.
Elsewhere(p, t) ==
  /\ asked < MaxSent
  /\ asked' = asked + 1
  /\ t \in themes
  /\ tagged' = IF <<p, t>> \in tagged THEN tagged \ {<<p, t>>} ELSE tagged \cup {<<p, t>>}
  /\ unsure' = unsure \cup {<<p, t>>}
  /\ UNCHANGED <<themes, unused, page, drag, sent>>

Answer(s) == Handle(s) \/ Fails(s) \/ AnswerLost(s) \/ OnAdded(s) \/ OnRemoved(s) \/ OnError(s)

Next ==
  \/ DragStart \/ DragEnd \/ Reload
  \/ \E s \in Slot :
       \/ Answer(s)
       \/ \E t \in Theme : Drop(s, t) \/ \E p \in Position : Assign(s, p, t)
       \/ \E c \in chips : RemoveClick(s, c)
  \/ \E t \in Theme : CreateTheme(t) \/ DeleteTheme(t) \/ \E p \in Position : Elsewhere(p, t)

Spec == Init /\ [][Next]_vars

-----------------------------------------------------------------------------
TypeOK ==
  /\ themes \subseteq Theme /\ unused \subseteq Theme \ themes
  /\ tagged \subseteq Position \X themes
  /\ cards \subseteq themes
  /\ chips \subseteq [theme : cards, position : Position, shown : Position]
  /\ heat \in [Theme -> 0..5]
  /\ tray \in [Position -> SUBSET Theme]
  /\ drag \in [position : Position, shown : Position, active : BOOLEAN] \cup {NoDrag}
  /\ sent \in [Slot -> Request \cup {None}]
  /\ asked \in 0..MaxSent
  /\ unsure \subseteq Pairs

\* A pair the page has settled: no change of it is under way and nothing
\* happened behind the page's back.
Settled(pair) ==
  pair \notin unsure /\ \A s \in UnderWay : PairOf(sent[s]) # pair

\* Card, tray and database agree on every settled pair, whatever failed and in
\* whatever order requests were handled and answers came: onDropZone,
\* handleRemoveClick and doAssign change the page as the server said.
PairsMatch ==
  \A p \in Position, t \in Theme : Settled(<<p, t>>) =>
    /\ <<p, t>> \in tagged <=> \E c \in chips : c.theme = t /\ c.position = p
    /\ <<p, t>> \in tagged <=> t \in tray[p]

\* "must stay in sync with _compute_heat_level()" (updateHeatIndicator): the
\* heat of a card the page has kept up to date is the one a reload would show.
HeatMatches ==
  \A t \in cards :
    /\ \A p \in Position : Settled(<<p, t>>)
    /\ \A c \in chips : c.theme = t => c.shown = c.position
    => heat[t] = ComputeHeatLevel(InTheme(t))

\* What the page changes by itself is what the server would render.
BoardMatchesServer == PairsMatch /\ HeatMatches

\* "add that position to the target theme" (header of theme-board.js): each chip
\* shows the ticker and the verdict of the position it stands for.
ChipsShowTheirPosition == \A c \in chips : c.shown = c.position
=============================================================================
