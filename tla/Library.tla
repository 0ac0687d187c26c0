-------------------------------- MODULE Library --------------------------------
(***************************************************************************)
(* What a user keeps: reports and canvases, renamed, shared, deleted,      *)
(* restored and purged (api/v1/reports.py, canvases.py, trash.py,          *)
(* public.py).  A request reads the row, and its UPDATE names the columns  *)
(* that differ from what it read; another request may write in between, or *)
(* remove the row.  Then the pages that list them.                         *)
(***************************************************************************)
EXTENDS Naturals, Sequences

CONSTANTS
    Items,       \* reports and canvases
    Titles,
    Askers,      \* requests at a time
    MaxTokens    \* bound: links made before a request for another

ASSUME LibraryAssumption == MaxTokens \in Nat

VARIABLES
    kind,        \* reports and canvases are rows of two tables
    rows,
    requests,    \* what each request does
    links,       \* ghost: links that were handed out
    tokens,      \* ghost: links made
    titled,        \* ghost: the title that was written last
    contested    \* ghost: items that two shares gave a link

libraryVars == <<kind, rows, requests, links, tokens, titled, contested>>

NoRow == [is |-> "unused", status |-> "draft", token |-> 0, title |-> "none"]
NoRequest == [at |-> "idle"]

LibraryInit ==
    /\ kind \in [Items -> {"report", "canvas"}]
    /\ rows = [x \in Items |-> NoRow] /\ requests = [k \in Askers |-> NoRequest]
    /\ links = {} /\ tokens = 0 /\ titled = [x \in Items |-> "none"]
    /\ contested = {}

-----------------------------------------------------------------------------
(* New rows. *)

New(x, title, status) ==
    /\ rows[x].is = "unused"
    /\ rows' = [rows EXCEPT ![x] = [NoRow EXCEPT !.is = "there", !.title = title, !.status = status]]
    /\ titled' = [titled EXCEPT ![x] = title]
    /\ UNCHANGED <<kind, requests, links, tokens, contested>>
CreateReport(x, t) == kind[x] = "report" /\ New(x, t, "draft")
CreateCanvas(x, t) == kind[x] = "canvas" /\ New(x, t, "draft")
\* A canvas, be it deleted, is kept as a report of any status.
SaveAsReport(x, t, status) == kind[x] = "report" /\ New(x, t, status)

-----------------------------------------------------------------------------
(* A request reads its row. *)

RowStatuses == {"draft", "published", "shared", "deleted"}
Operations ==
    [do : {"title"}, title : Titles] \cup [do : {"status"}, status : RowStatuses]
        \cup [do : {"share", "delete", "restore", "purge"}]

\* The trash holds what is deleted; only from there is anything restored or purged.
InTrash(x) == rows[x].is = "there" /\ rows[x].status = "deleted"
Finds(op, x) ==
    /\ rows[x].is = "there"
    /\ op.do \in {"restore", "purge"} => InTrash(x)
    /\ op.do \in {"share", "status"} => kind[x] = "report"
    /\ op.do = "share" /\ rows[x].token = 0 => tokens < MaxTokens

ReadRow(k, op, x) ==
    /\ requests[k].at = "idle" /\ Finds(op, x)
    /\ requests' = [requests EXCEPT ![k] = [at |-> "read", op |-> op, item |-> x, read |-> rows[x]]]
    /\ UNCHANGED <<kind, rows, links, tokens, titled, contested>>

-----------------------------------------------------------------------------
(* It writes it. *)

Retitled(row, title) == [row EXCEPT !.title = title]
\* Any status may follow any; a deleted report comes back this way, too.
WithStatus(row, status) == [row EXCEPT !.status = status]
\* A link is made once, and is never withdrawn.
WithLink_again(row) == [row EXCEPT !.status = "shared", !.token = tokens + 1]
WithLink(row) == [row EXCEPT !.status = "shared", !.token = IF @ = 0 THEN tokens + 1 ELSE @]
Trashed(row) == [row EXCEPT !.status = "deleted"]
Restored(row) == [row EXCEPT !.status = "draft"]
Purged(row) == [row EXCEPT !.is = "gone"]
WantedRow(op, row) ==
    CASE op.do = "title"   -> Retitled(row, op.title)
      [] op.do = "status"  -> WithStatus(row, op.status)
      [] op.do = "share"   -> WithLink(row)
      [] op.do = "delete"  -> Trashed(row)
      [] op.do = "restore" -> Restored(row)
      [] op.do = "purge"   -> Purged(row)

\* The UPDATE names the columns that were changed in memory.
Written_whole(now, read, new) == [new EXCEPT !.is = IF new.is = "gone" THEN "gone" ELSE now.is]
Written(now, read, new) == [c \in DOMAIN now |-> IF new[c] = read[c] THEN now[c] ELSE new[c]]

Commit(k) ==
    LET r == requests[k]
        x == r.item
        new == WantedRow(r.op, r.read)
        makesLink == r.op.do = "share" /\ r.read.token = 0
    IN /\ r.at = "read" /\ rows[x].is = "there"
       /\ rows' = [rows EXCEPT ![x] = Written(@, r.read, new)]
       /\ requests' = [requests EXCEPT ![k] = NoRequest]
       /\ titled' = IF new.title = r.read.title THEN titled ELSE [titled EXCEPT ![x] = new.title]
       /\ tokens' = IF makesLink THEN tokens + 1 ELSE tokens
       /\ links' = IF r.op.do = "share" THEN links \cup {<<x, new.token>>} ELSE links
       /\ contested' = IF makesLink /\ rows[x].token # 0 THEN contested \cup {x} ELSE contested
       /\ UNCHANGED kind

\* A row that was purged meanwhile is not there to be written: an UPDATE of it fails, a
\* second purge is done.  And a request may fail before it commits.
RowUntouched(k) ==
    /\ requests[k].at = "read" /\ requests' = [requests EXCEPT ![k] = NoRequest]
    /\ UNCHANGED <<kind, rows, links, tokens, titled, contested>>

LibraryNext ==
    \/ \E x \in Items, t \in Titles :
          \/ CreateCanvas(x, t) \/ CreateReport(x, t)
          \/ \E status \in RowStatuses : SaveAsReport(x, t, status)
    \/ \E k \in Askers :
          \/ Commit(k) \/ RowUntouched(k)
          \/ \E op \in Operations, x \in Items : ReadRow(k, op, x)

LibrarySpec == LibraryInit /\ [][LibraryNext]_libraryVars

-----------------------------------------------------------------------------
(* Properties. *)

LibraryTypeOK ==
    /\ \A x \in Items : /\ rows[x].is \in {"unused", "there", "gone"} /\ rows[x].status \in RowStatuses
                        /\ titled[x] \in Titles \cup {"none"}
    /\ \A k \in Askers : requests[k].at \in {"idle", "read"}
    /\ contested \subseteq Items

\* A title that was saved stays until the next is saved, whatever is done to the row
\* meanwhile by a request that had read an older one.
TitlesKept == \A x \in Items : rows[x].title = titled[x]

\* A dashboard that is shared is not found by the token of a report.
Opens(token) == {x \in Items : rows[x].is = "there" /\ rows[x].token = token}

\* A link that was handed out opens its report for as long as the report exists, deleted
\* or not, unless it was first shared by two requests at once.
LinksLive ==
    \A link \in links :
        LET x == link[1] IN x \notin contested /\ rows[x].is = "there" => Opens(link[2]) = {x}

LibrarySound == TitlesKept /\ LinksLive

-----------------------------------------------------------------------------
(***************************************************************************)
(* The pages that list what a user keeps: the report center, which asks    *)
(* for its list again after every change it made, and the trash, which     *)
(* asks once and strikes off what was restored or purged                   *)
(* (pages/ReportCenter, pages/Trash, hooks/useQuery.ts).  Nothing tells a  *)
(* listing that was overtaken from the last one.                           *)
(***************************************************************************)

CONSTANTS
    Papers,      \* reports
    Names,
    Calls,       \* changes under way at a time
    MaxListings  \* bound: listings under way

ASSUME ListPagesAssumption == MaxListings \in Nat /\ Names \cap {"unused", "trash", "gone"} = {}

VARIABLES
    kept,        \* the server's rows: the name of a report, or where it is
    calls,       \* changes under way, and whether the page that asked is still there
    page,        \* where the user is
    onPage,       \* what the page lists
    listings,    \* its listings under way
    silent,      \* ghost: reports that changed after the page asked, without its knowing
    overtaken      \* ghost: two listings were under way

listVars == <<kept, calls, page, onPage, listings, silent, overtaken>>

NoCall == [at |-> "idle"]
Elsewhere == {"unused", "trash", "gone"}

ListInit ==
    /\ kept \in [Papers -> {"unused", "trash"}] /\ calls = [k \in Calls |-> NoCall]
    /\ page = "out" /\ onPage = {} /\ listings = <<>> /\ silent = {} /\ overtaken = FALSE

-----------------------------------------------------------------------------
(* Listings. *)

CenterList == {<<x, kept[x]>> : x \in {y \in Papers : kept[y] \in Names}}
TrashList == {<<x, "trash">> : x \in {y \in Papers : kept[y] = "trash"}}
Listed == IF page = "trash" THEN TrashList ELSE CenterList

\* useQuery.refetch
Ask ==
    /\ Len(listings) < MaxListings /\ listings' = Append(listings, [at |-> "asked"])
    /\ silent' = {} /\ overtaken' = (listings # <<>>)

ServeList(n) ==
    /\ n \in DOMAIN listings /\ listings[n].at = "asked"
    /\ listings' = [listings EXCEPT ![n] = [at |-> "served", what |-> Listed]]
    /\ UNCHANGED <<kept, calls, page, onPage, silent, overtaken>>

Without(n) == [m \in 1 .. Len(listings) - 1 |-> IF m < n THEN listings[m] ELSE listings[m + 1]]
\* The answers come in any order, and the last to come stays.  A center that cannot
\* load keeps what it shows, the trash shows nothing.
ShowList_adds(n) ==
    /\ n \in DOMAIN listings /\ listings[n].at = "served"
    /\ onPage' = onPage \cup listings[n].what /\ listings' = Without(n)
    /\ UNCHANGED <<kept, calls, page, silent, overtaken>>
ShowList(n) ==
    /\ n \in DOMAIN listings /\ listings[n].at = "served"
    /\ onPage' = listings[n].what /\ listings' = Without(n)
    /\ UNCHANGED <<kept, calls, page, silent, overtaken>>
ListingFails(n) ==
    /\ n \in DOMAIN listings /\ listings' = Without(n)
    /\ onPage' = IF page = "trash" THEN {} ELSE onPage
    /\ silent' = Papers /\ UNCHANGED <<kept, calls, page, overtaken>>

\* A tab, or another word to search for.
ChooseTab ==
    /\ page = "center" /\ Ask /\ UNCHANGED <<kept, calls, page, onPage>>

\* The page that is left waits for nothing any more; what it asked for is done.
Visit(p) ==
    /\ page # p /\ page' = p /\ onPage' = {} /\ silent' = {} /\ overtaken' = FALSE
    /\ listings' = <<[at |-> "asked"]>>
    /\ calls' = [k \in Calls |-> IF calls[k].at = "idle" THEN NoCall ELSE [calls[k] EXCEPT !.heard = FALSE]]
    /\ UNCHANGED kept

-----------------------------------------------------------------------------
(* Changes. *)

\* By this page, of what it lists, or by another.
Call(k, do, x, name, heard) ==
    /\ calls[k].at = "idle"
    /\ heard => IF page = "trash" THEN do \in {"restore", "purge"} /\ <<x, "trash">> \in onPage
                ELSE page = "center" /\ \/ do = "create"
                                        \/ do \in {"rename", "delete"} /\ \E n \in Names : <<x, n>> \in onPage
    /\ calls' = [calls EXCEPT ![k] = [at |-> "asked", do |-> do, of |-> x, name |-> name, heard |-> heard]]
    /\ UNCHANGED <<kept, page, onPage, listings, silent, overtaken>>

Allowed(do, now) ==
    \/ do = "create" /\ now = "unused"
    \/ do \in {"rename", "delete"} /\ now \in Names
    \/ do \in {"restore", "purge"} /\ now = "trash"
Result(do, name) ==
    CASE do \in {"create", "rename", "restore"} -> name [] do = "delete" -> "trash" [] do = "purge" -> "gone"

ServeCall(k) ==
    LET c == calls[k] IN
    /\ c.at = "asked"
    /\ IF Allowed(c.do, kept[c.of])
       THEN /\ kept' = [kept EXCEPT ![c.of] = Result(c.do, c.name)]
            /\ calls' = [calls EXCEPT ![k] = [at |-> "done", of |-> c.of, heard |-> c.heard]]
            /\ silent' = IF c.heard THEN silent ELSE silent \cup {c.of}
       ELSE calls' = [calls EXCEPT ![k] = NoCall] /\ UNCHANGED <<kept, silent>>
    /\ UNCHANGED <<page, onPage, listings, overtaken>>

\* handleCreate, handleConfirmDelete and the title's form load the list again.
CenterHears_nothing(k) ==
    /\ calls[k].at = "done" /\ calls[k].heard /\ page = "center"
    /\ calls' = [calls EXCEPT ![k] = NoCall]
    /\ UNCHANGED <<kept, page, onPage, listings, silent, overtaken>>
CenterHears(k) ==
    /\ calls[k].at = "done" /\ calls[k].heard /\ page = "center"
    /\ calls' = [calls EXCEPT ![k] = NoCall] /\ Ask
    /\ UNCHANGED <<kept, page, onPage>>
\* handleRestore and handlePermanentDelete, or several at once, strike it off.
TrashHears_nothing(k) ==
    /\ calls[k].at = "done" /\ calls[k].heard /\ page = "trash"
    /\ calls' = [calls EXCEPT ![k] = NoCall]
    /\ UNCHANGED <<kept, page, onPage, listings, silent, overtaken>>
TrashHears(k) ==
    /\ calls[k].at = "done" /\ calls[k].heard /\ page = "trash"
    /\ calls' = [calls EXCEPT ![k] = NoCall]
    /\ onPage' = {s \in onPage : s[1] # calls[k].of}
    /\ UNCHANGED <<kept, page, listings, silent, overtaken>>
\* Nobody waits, or the answer is lost.
NobodyHears(k) ==
    /\ calls[k].at = "done" /\ calls' = [calls EXCEPT ![k] = NoCall]
    /\ silent' = IF calls[k].heard THEN silent \cup {calls[k].of} ELSE silent
    /\ UNCHANGED <<kept, page, onPage, listings, overtaken>>

ListNext ==
    \/ \E p \in {"center", "trash"} : Visit(p)
    \/ ChooseTab
    \/ \E n \in 1 .. MaxListings : ServeList(n) \/ ShowList(n) \/ ListingFails(n)
    \/ \E k \in Calls :
          \/ ServeCall(k) \/ CenterHears(k) \/ TrashHears(k) \/ NobodyHears(k)
          \/ \E do \in {"create", "rename", "delete", "restore", "purge"}, x \in Papers, name \in Names,
                heard \in BOOLEAN : Call(k, do, x, name, heard)

ListSpec == ListInit /\ [][ListNext]_listVars

-----------------------------------------------------------------------------
(* Properties. *)

ListTypeOK ==
    /\ kept \in [Papers -> Names \cup Elsewhere]
    /\ \A k \in Calls : calls[k].at \in {"idle", "asked", "done"}
    /\ page \in {"out", "center", "trash"} /\ onPage \subseteq Papers \X (Names \cup {"trash"})
    /\ Len(listings) <= MaxListings /\ silent \subseteq Papers /\ overtaken \in BOOLEAN

\* When nothing is under way any more a page lists what there is, except for what others
\* changed since it asked, and unless two of its listings overtook each other.
PageTrue ==
    page # "out" /\ ~overtaken /\ listings = <<>> /\ (\A k \in Calls : calls[k].at = "idle") =>
        {s \in onPage : s[1] \notin silent} = {s \in Listed : s[1] \notin silent}

=============================================================================
