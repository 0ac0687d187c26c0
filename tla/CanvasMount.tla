------------------------------ MODULE CanvasMount ------------------------------
(***************************************************************************)
(* What the canvas page shows when it is opened, and what it leaves in the *)
(* browser's storage for the next time (pages/FreeCanvas): a template, a   *)
(* report to edit, or the draft that every page of the browser shares.     *)
(* Opening, creating and deleting canvases answer late, to the page as it  *)
(* is by then, or after it was left.  The rows on the server, and when the *)
(* page saves to them, are those of CanvasAutosave.                        *)
(***************************************************************************)
EXTENDS Naturals, Sequences, SequencesExt

CONSTANTS
    Tabs,        \* pages of the browser
    Sheets,      \* canvases, made or to be made
    NoSheet,
    MaxChanges,  \* bound: changes of the blocks by hand
    MaxErrands   \* bound: requests and reports

ASSUME MountAssumption ==
    /\ MaxChanges \in Nat /\ MaxErrands \in Nat /\ NoSheet \notin Sheets
    /\ {"none", "copy"} \cap (Sheets \cup {NoSheet}) = {}

VARIABLES
    pages,       \* what each tab shows
    draft,       \* CANVAS_DRAFT_KEY
    transfer,    \* lvco:report:transfer
    errands,     \* requests under way
    made,        \* the canvases there are
    spent,       \* how many requests and reports there were
    handed,      \* ghost: reports handed over, and pages that took one
    robbed       \* ghost: tabs whose draft another tab, or a page that is gone, wrote

mountVars == <<pages, draft, transfer, errands, made, spent, handed, robbed>>

\* "of" is the canvas the blocks belong to, "copy" if they are of none yet, "none" if
\* there are no blocks; "torn" tells that a canvas was created under another one.
BlankSheet == [canvas |-> NoSheet, of |-> "none", v |-> 0, torn |-> FALSE]
NoPage == [shows |-> BlankSheet, open |-> FALSE, hydrated |-> FALSE, timer |-> FALSE]
NoDraft == [BlankSheet EXCEPT !.of = "no draft"]
Errand(do, t, c) == [do |-> do, tab |-> t, sheet |-> c, was |-> pages[t].shows.canvas, gone |-> FALSE]

MountInit ==
    /\ pages = [t \in Tabs |-> NoPage] /\ draft = NoDraft /\ transfer = "none"
    /\ errands = <<>> /\ made \in SUBSET Sheets /\ spent = 0
    /\ handed = [given |-> 0, taken |-> 0] /\ robbed = {}

-----------------------------------------------------------------------------
(* The page and the draft. *)

Of(c) == [BlankSheet EXCEPT !.canvas = c, !.of = c]
Emptied(shown) == [shown EXCEPT !.of = "none", !.v = 0, !.torn = FALSE]
Copied == [BlankSheet EXCEPT !.of = "copy"]

\* Mutation: the effect does not depend on the canvas.
Rendered_byBlocks(p, shown) ==
    [p EXCEPT !.shows = shown,
              !.timer = @ \/ (p.hydrated /\ (shown.of # p.shows.of \/ shown.v # p.shows.v))]
\* Every change restarts the 300 ms after which the draft is written, once hydrated.
Rendered(p, shown) == [p EXCEPT !.shows = shown, !.timer = p.hydrated]
Hydrated(p, shown) == Rendered([p EXCEPT !.hydrated = TRUE], shown)

WriteDraft(t) ==
    /\ pages[t].timer
    /\ draft' = pages[t].shows /\ robbed' = (robbed \ {t}) \cup (Tabs \ {t})
    /\ pages' = [pages EXCEPT ![t].timer = FALSE]
    /\ UNCHANGED <<transfer, errands, made, spent, handed>>

RemoveDraft(own) == draft' = NoDraft /\ robbed' = robbed \cup (Tabs \ own)

\* An edit by hand, or of the agent.
ChangeBlocks(t) ==
    LET shown == pages[t].shows
        mine == IF shown.canvas = NoSheet THEN "copy" ELSE shown.canvas
    IN /\ pages[t].open /\ shown.v < MaxChanges
       /\ pages' = [pages EXCEPT ![t] =
            Rendered(@, [shown EXCEPT !.of = IF @ = "none" THEN mine ELSE @, !.v = @ + 1])]
       /\ UNCHANGED <<draft, transfer, errands, made, spent, handed, robbed>>

\* handleClearBlocks keeps the canvas.
ClearBlocks(t) ==
    /\ pages[t].open /\ pages[t].shows.of # "none"
    /\ pages' = [pages EXCEPT ![t] = Rendered(@, Emptied(@.shows))]
    /\ UNCHANGED <<draft, transfer, errands, made, spent, handed, robbed>>

-----------------------------------------------------------------------------
(* The page is opened. *)

\* Mutation: the report stays in the storage.
TakeTransfer_stays == UNCHANGED transfer
\* Taken out by the first render, also of a page that then shows a template.
TakeTransfer == transfer' = "none"

Begins(do, t, c) ==
    /\ spent < MaxErrands /\ spent' = spent + 1
    /\ errands' = Append(errands, Errand(do, t, c))
Opening(t) == ~pages[t].open /\ TakeTransfer
OpensAs(t, p) == pages' = [pages EXCEPT ![t] = [p EXCEPT !.open = TRUE]]
Taken == handed' = [handed EXCEPT !.taken = @ + 1]

\* A system template; one that has a data source creates its canvas at once.
OpenSystemTemplate(t) ==
    /\ Opening(t) /\ RemoveDraft({t}) /\ OpensAs(t, Hydrated(NoPage, Copied))
    /\ \/ Begins("create", t, NoSheet)
       \/ UNCHANGED <<errands, spent>>
    /\ UNCHANGED <<made, handed>>

\* A user's canvas as a template is fetched first.
OpenUserTemplate(t, c) ==
    /\ Opening(t) /\ c \in made /\ RemoveDraft({t}) /\ OpensAs(t, NoPage)
    /\ Begins("clone", t, c) /\ UNCHANGED <<made, handed>>

OpenTransfer(t, unknown) ==
    /\ Opening(t) /\ transfer = "put" /\ OpensAs(t, Hydrated(NoPage, Copied)) /\ Taken
    /\ IF unknown THEN RemoveDraft({t}) ELSE UNCHANGED <<draft, robbed>>
    /\ UNCHANGED <<errands, made, spent>>

\* Mutation: the draft's canvas is not restored.
DraftShown_apart == [draft EXCEPT !.canvas = NoSheet]
DraftShown == draft

\* Neither template nor report: the draft, if there is one.
OpenDraft(t) ==
    /\ Opening(t) /\ transfer # "put"
    /\ OpensAs(t, Hydrated(NoPage, IF draft = NoDraft THEN BlankSheet ELSE DraftShown))
    /\ UNCHANGED <<draft, robbed, errands, made, spent, handed>>

\* A template that is not known has only removed the draft.
OpenUnknownTemplate(t) ==
    /\ Opening(t) /\ transfer # "put" /\ RemoveDraft({t}) /\ OpensAs(t, Hydrated(NoPage, BlankSheet))
    /\ UNCHANGED <<errands, made, spent, handed>>

\* The timer is cleared and nothing is written; what is under way goes on.
LeaveSheet(t) ==
    /\ pages[t].open /\ pages' = [pages EXCEPT ![t] = NoPage]
    /\ errands' = [k \in DOMAIN errands |->
                      IF errands[k].tab = t THEN [errands[k] EXCEPT !.gone = TRUE] ELSE errands[k]]
    /\ UNCHANGED <<draft, transfer, made, spent, handed, robbed>>

\* The report centre hands a report over, or what it could not fetch as one without blocks.
HandReport ==
    /\ spent < MaxErrands /\ spent' = spent + 1
    /\ transfer' \in {"put", "empty"} /\ handed' = [handed EXCEPT !.given = @ + 1]
    /\ UNCHANGED <<pages, draft, errands, made, robbed>>

-----------------------------------------------------------------------------
(* Requests of the page, and their answers. *)

AskFor(t) ==
    /\ pages[t].open
    /\ \/ \E c \in made : Begins("open", t, c) \/ Begins("trash", t, c)
       \/ Begins("new", t, NoSheet)
       \/ pages[t].shows.canvas = NoSheet /\ Begins("create", t, NoSheet)
       \/ pages[t].shows.canvas # NoSheet /\ Begins("reset", t, pages[t].shows.canvas)
    /\ UNCHANGED <<pages, draft, transfer, made, handed, robbed>>

Awaited(k, doing) == errands[k].do \in doing /\ errands' = RemoveAt(errands, k) /\ UNCHANGED <<transfer, spent, handed>>
Alive(k) == ~errands[k].gone

\* A page that was left shows nothing any more, but its draft is removed all the same.
Replaces(k, p) ==
    IF Alive(k) THEN pages' = [pages EXCEPT ![errands[k].tab] = p] /\ RemoveDraft({errands[k].tab})
                ELSE UNCHANGED pages /\ RemoveDraft({})

\* ensureCanvas and a system template: only the id is set, whatever the page shows by now.
Named(shown, c) ==
    [shown EXCEPT !.canvas = c,
                  !.of = IF shown.canvas = NoSheet /\ @ = "copy" THEN c ELSE @,
                  !.torn = @ \/ (shown.canvas # NoSheet /\ shown.of # "none")]
CreateAnswer(k, c) ==
    LET t == errands[k].tab IN
    /\ Awaited(k, {"create"}) /\ c \notin made /\ made' = made \cup {c}
    /\ pages' = IF Alive(k) THEN [pages EXCEPT ![t] = Rendered(@, Named(@.shows, c))] ELSE pages
    /\ UNCHANGED <<draft, robbed>>

\* openCanvasById
OpenAnswer(k) ==
    LET e == errands[k] IN
    /\ Awaited(k, {"open"})
    /\ \E shown \in {Of(e.sheet), Emptied(Of(e.sheet))} : Replaces(k, Hydrated(pages[e.tab], shown))
    /\ UNCHANGED made

\* handleNewCanvas
NewAnswer(k, c) ==
    /\ Awaited(k, {"new"}) /\ c \notin made /\ made' = made \cup {c}
    /\ Replaces(k, Hydrated(pages[errands[k].tab], Emptied(Of(c))))

\* handleResetCanvas, and handleCanvasDeleted of the canvas shown when it was asked for.
DeleteAnswer(k) ==
    LET e == errands[k] IN
    /\ Awaited(k, {"reset", "trash"})
    /\ IF e.do = "reset" \/ e.was = e.sheet
       THEN Replaces(k, Rendered(pages[e.tab], BlankSheet))
       ELSE UNCHANGED <<pages, draft, robbed>>
    /\ UNCHANGED made

\* handleResetCanvas of a page without a canvas asks nobody.
ResetDraft(t) ==
    /\ pages[t].open /\ pages[t].shows.canvas = NoSheet
    /\ pages' = [pages EXCEPT ![t] = Rendered(@, BlankSheet)] /\ RemoveDraft({t})
    /\ UNCHANGED <<transfer, errands, made, spent, handed>>

\* Mutation: the page edits the canvas it was to copy.
Cloned_bound(c) == [Copied EXCEPT !.canvas = c]
Cloned(c) == Copied
CloneAnswer(k) ==
    LET e == errands[k] IN
    /\ Awaited(k, {"clone"})
    /\ \E shown \in {Cloned(e.sheet), BlankSheet} :
          pages' = IF Alive(k) THEN [pages EXCEPT ![e.tab] = Hydrated(@, shown)] ELSE pages
    /\ UNCHANGED <<draft, robbed, made>>

\* The request fails; a page that waited for its template goes on with what it shows.
ErrandFails(k) ==
    LET e == errands[k] IN
    /\ Awaited(k, {"create", "open", "new", "reset", "trash", "clone"})
    /\ pages' = IF e.do = "clone" /\ Alive(k) THEN [pages EXCEPT ![e.tab] = Hydrated(@, @.shows)] ELSE pages
    /\ UNCHANGED <<draft, robbed, made>>

MountNext ==
    \/ HandReport
    \/ \E t \in Tabs :
        \/ WriteDraft(t) \/ ChangeBlocks(t) \/ ClearBlocks(t) \/ LeaveSheet(t) \/ ResetDraft(t)
        \/ OpenSystemTemplate(t) \/ OpenDraft(t) \/ OpenUnknownTemplate(t)
        \/ \E unknown \in BOOLEAN : OpenTransfer(t, unknown)
        \/ AskFor(t) \/ \E c \in Sheets : OpenUserTemplate(t, c)
    \/ \E k \in DOMAIN errands :
        \/ OpenAnswer(k) \/ DeleteAnswer(k) \/ CloneAnswer(k) \/ ErrandFails(k)
        \/ \E c \in Sheets : CreateAnswer(k, c) \/ NewAnswer(k, c)

MountSpec == MountInit /\ [][MountNext]_mountVars

-----------------------------------------------------------------------------
(* Properties. *)

Shows == [canvas : Sheets \cup {NoSheet}, of : Sheets \cup {"none", "copy"},
          v : 0 .. MaxChanges, torn : BOOLEAN]
MountTypeOK ==
    /\ pages \in [Tabs -> [shows : Shows, open : BOOLEAN, hydrated : BOOLEAN, timer : BOOLEAN]]
    /\ draft \in Shows \cup {NoDraft} /\ transfer \in {"none", "put", "empty"}
    /\ made \in SUBSET Sheets /\ spent \in 0 .. MaxErrands /\ robbed \in SUBSET Tabs
    /\ handed \in [given : 0 .. MaxErrands, taken : 0 .. MaxErrands]
    /\ \A k \in DOMAIN errands : errands[k] \in
          [do : {"create", "open", "new", "reset", "trash", "clone"}, tab : Tabs,
           sheet : Sheets \cup {NoSheet}, was : Sheets \cup {NoSheet}, gone : BOOLEAN]

\* A page that has shown the same for 300 ms finds it again when it is opened anew, unless
\* another tab, or a request of a page that was left, has written the draft since.
ShownIsKept ==
    \A t \in Tabs : pages[t].hydrated /\ ~pages[t].timer /\ t \notin robbed => draft = pages[t].shows

\* Blocks stay with their canvas, on the page and in the draft: the autosave never writes
\* those of one into another, but where a canvas was created late, under another one.
Whole(shown) ==
    shown.torn \/ (shown.of \in {"none", "copy"} /\ (shown.of = "copy" => shown.canvas = NoSheet))
               \/ shown.of = shown.canvas
BlocksApart ==
    /\ \A t \in Tabs : Whole(pages[t].shows)
    /\ draft = NoDraft \/ Whole(draft)

\* A report that was handed over is taken by one page.
HandedOnce == handed.taken <= handed.given

MountSound == ShownIsKept /\ BlocksApart /\ HandedOnce

=============================================================================
