-------------------------------- MODULE GhCache --------------------------------
(***************************************************************************)
(* The mirror of a GitHub repository (gh.go): one sync at a time lists the *)
(* issues, then the pull requests, page by page, writes a file for each    *)
(* and an index last; requests read these files, and the diff of a pull    *)
(* request is computed from the commits its file names and cached.         *)
(*                                                                         *)
(* GitHub is external: items are numbered as they are created, listings    *)
(* show the newest first, and commits are pushed to one pull request,      *)
(* Diffed, whose version is the number of pushes.                          *)
(*                                                                         *)
(* A diff's time is the local clock's, an update's GitHub's, in whole      *)
(* seconds.  Updates follow one another, so a diff is later than those up  *)
(* to some version, "upto": the pushes there were when it was written, and *)
(* one more where a push follows in the same second, or the local clock is *)
(* ahead of it.                                                            *)
(*                                                                         *)
(* The file of an item is written through one .tmp, which is first         *)
(* emptied, then filled, then renamed; so is a diff.                       *)
(*                                                                         *)
(* Three history variables name what the code accepts: "early", a diff was *)
(* written for a version GitHub had already replaced; "blurred", a diff    *)
(* counts as later than a push that followed it; "overlap", a request      *)
(* began to write the diff while another did.                              *)
(***************************************************************************)
EXTENDS Integers, Sequences, FiniteSets

CONSTANTS
  Syncer,     \* POST /api/gh/sync requests that may be served at a time
  Viewer,     \* requests for the diff
  KindOf,     \* "issue" or "pr", of each item GitHub will have
  Diffed,     \* a pull request
  PerPage,    \* 100
  Behind,     \* whether a diff may count as older than an update it is later than
  MaxPushes,  \* bound: pushes
  MaxSyncs    \* bound: syncs

Item == DOMAIN KindOf
Kind == {"issue", "pr"}
Nobody == -1   \* no version: no file

VARIABLES
  top, pushes,          \* GitHub's newest item; what was pushed to Diffed
  syncing, syncs,
  sync,                 \* runSync of each request: where it is, what it has listed
  tmp, cached, index,   \* the .tmp and the file of each item, and the two indexes
  covers,               \* history: the newest item when each index's sync began
  diff, diffTmp,        \* the cached diff: what it is of, what it is later than, all of it
  view,                 \* handleGHPRDiff: where it is, what it read, what it served
  early, blurred, overlap

github == <<top, pushes>>
mirror == <<syncing, syncs, sync, tmp, cached, index, covers>>
diffs == <<diff, diffTmp, view, early, blurred, overlap>>
vars == <<github, mirror, diffs>>

Idle == [pc |-> "idle", kind |-> "issue", page |-> 1, listed |-> <<>>, next |-> 1, began |-> 0]
NoFile == [version |-> Nobody, whole |-> TRUE]
NoDiff == [of |-> Nobody, upto |-> Nobody, whole |-> TRUE]
Text(file) == [of |-> file.of, whole |-> file.whole]
Asked == [pc |-> "idle", version |-> Nobody, got |-> Text(NoDiff)]

Init ==
  /\ top = 1 /\ pushes = 0
  /\ syncing = FALSE /\ syncs = 0 /\ sync = [s \in Syncer |-> Idle]
  /\ tmp = [n \in Item |-> NoFile] /\ cached = [n \in Item |-> NoFile]
  /\ index = [k \in Kind |-> {}] /\ covers = [k \in Kind |-> 0]
  /\ diff = NoDiff /\ diffTmp = NoDiff
  /\ view = [v \in Viewer |-> Asked]
  /\ early = FALSE /\ blurred = FALSE /\ overlap = FALSE

------------------------------------------------------------------------------
\* GitHub.

Create ==
  /\ top + 1 \in Item /\ top' = top + 1
  /\ UNCHANGED <<pushes, mirror, diffs>>

\* A file that is later than all updates so far may be later than the next.
Passing(file, blurs) == IF blurs THEN [file EXCEPT !.upto = pushes + 1] ELSE file

Push ==
  /\ pushes < MaxPushes /\ Diffed <= top
  /\ pushes' = pushes + 1
  /\ \E fileBlurs \in {FALSE, diff.upto = pushes}, tmpBlurs \in {FALSE, diffTmp.upto = pushes} :
       /\ diff' = Passing(diff, fileBlurs) /\ diffTmp' = Passing(diffTmp, tmpBlurs)
       /\ blurred' = (blurred \/ fileBlurs \/ tmpBlurs)
  /\ UNCHANGED <<top, mirror, view, early, overlap>>

Version(n) == IF n = Diffed THEN pushes ELSE 0

\* The issues endpoint lists pull requests too, the pulls endpoint only these.
OnEndpoint(kind) == {n \in 1..top : kind = "issue" \/ KindOf[n] = "pr"}

Newer(S, n) == Cardinality({m \in S : m > n})

\* Page p: those with as many newer ones as fill the pages before it.
Page(kind, p) ==
  {n \in OnEndpoint(kind) :
     Newer(OnEndpoint(kind), n) \in (p - 1) * PerPage..p * PerPage - 1}

------------------------------------------------------------------------------
\* handleGHSync and runSync.

At(s, pc) == sync[s].pc = pc
Goto(s, pc) == sync' = [sync EXCEPT ![s] = [@ EXCEPT !.pc = pc]]

\* Mutant: whether a sync is running is not asked.
tryStart_Always == TRUE

tryStart == ~syncing

StartSync(s) ==
  /\ At(s, "idle") /\ syncs < MaxSyncs /\ tryStart
  /\ syncing' = TRUE /\ syncs' = syncs + 1
  /\ sync' = [sync EXCEPT ![s] = [@ EXCEPT !.pc = "list", !.began = top]]
  /\ UNCHANGED <<github, tmp, cached, index, covers, diffs>>

\* Mutant: a page is the last when few of its items are of the kind that is listed.
LastPage_Kept(kind, p) == Cardinality({n \in Page(kind, p) : KindOf[n] = kind}) < PerPage

LastPage(kind, p) == Cardinality(Page(kind, p)) < PerPage

Kept(kind, p) == {n \in Page(kind, p) : KindOf[n] = kind}

Writing(s) == sync[s].listed[sync[s].next]

\* A page's items as they are listed, newest first.
Listed(S) ==
  LET nth(k) == CHOOSE n \in S : Newer(S, n) = k - 1
  IN  [k \in 1..Cardinality(S) |-> [item |-> nth(k), version |-> Version(nth(k))]]

ListPage(s) ==
  LET kind == sync[s].kind
      p == sync[s].page
      last == LastPage(kind, p)
  IN  /\ At(s, "list")
      /\ sync' = [sync EXCEPT ![s] =
                    [@ EXCEPT !.listed = sync[s].listed \o Listed(Kept(kind, p)),
                              !.page = IF last THEN 1 ELSE p + 1,
                              !.pc = IF last THEN "item" ELSE "list"]]
      /\ UNCHANGED <<github, syncing, syncs, tmp, cached, index, covers, diffs>>

\* The next item's comments and reviews were fetched: writeAtomic empties its .tmp,
EmptyTmp(s) ==
  /\ At(s, "item") /\ sync[s].next <= Len(sync[s].listed)
  /\ tmp' = [tmp EXCEPT ![Writing(s).item] = [version |-> Writing(s).version, whole |-> FALSE]]
  /\ Goto(s, "fill")
  /\ UNCHANGED <<github, syncing, syncs, cached, index, covers, diffs>>

\* ... fills it,
FillTmp(s) ==
  /\ At(s, "fill")
  /\ tmp' = [tmp EXCEPT ![Writing(s).item] = [version |-> Writing(s).version, whole |-> TRUE]]
  /\ Goto(s, "rename")
  /\ UNCHANGED <<github, syncing, syncs, cached, index, covers, diffs>>

\* ... and makes it the item's file.
Rename(s) ==
  LET n == Writing(s).item
  IN  /\ At(s, "rename")
      /\ cached' = IF tmp[n] = NoFile THEN cached ELSE [cached EXCEPT ![n] = tmp[n]]
      /\ tmp' = [tmp EXCEPT ![n] = NoFile]
      /\ sync' = [sync EXCEPT ![s] = [@ EXCEPT !.pc = "item", !.next = sync[s].next + 1]]
      /\ UNCHANGED <<github, syncing, syncs, index, covers, diffs>>

\* The index goes last; the pull requests follow the issues.
WriteIndex(s) ==
  LET kind == sync[s].kind
      seq == sync[s].listed
  IN  /\ At(s, "item") /\ sync[s].next > Len(seq)
      /\ index' = [index EXCEPT ![kind] = {seq[k].item : k \in DOMAIN seq}]
      /\ covers' = [covers EXCEPT ![kind] = sync[s].began]
      /\ sync' = [sync EXCEPT ![s] =
                    [@ EXCEPT !.kind = "pr", !.listed = <<>>, !.next = 1,
                              !.pc = IF kind = "issue" THEN "list" ELSE "meta"]]
      /\ UNCHANGED <<github, syncing, syncs, tmp, cached, diffs>>

\* The repository's meta data is written last, or a call to gh has failed.
Finish(s) ==
  /\ sync[s].pc \in {"list", "item", "meta"}
  /\ sync' = [sync EXCEPT ![s] = Idle] /\ syncing' = FALSE
  /\ UNCHANGED <<github, syncs, tmp, cached, index, covers, diffs>>

------------------------------------------------------------------------------
\* handleGHPRDiff.

See(v, pc) == view' = [view EXCEPT ![v] = [@ EXCEPT !.pc = pc]]

ReadPR(v) ==
  /\ view[v].pc = "idle" /\ cached[Diffed] # NoFile
  /\ view' = [view EXCEPT ![v] = [@ EXCEPT !.pc = "read", !.version = cached[Diffed].version]]
  /\ UNCHANGED <<github, mirror, diff, diffTmp, early, blurred, overlap>>

\* Mutant: a cached diff is served whatever its time.
diffFileFresh_Always(version) == diff # NoDiff

\* The diff's time is later than the version's update.
diffFileFresh(version) == diff # NoDiff /\ version <= diff.upto

ServeCached(v) ==
  /\ view[v].pc = "read" /\ diffFileFresh(view[v].version)
  /\ view' = [view EXCEPT ![v] = [@ EXCEPT !.pc = "served", !.got = Text(diff)]]
  /\ UNCHANGED <<github, mirror, diff, diffTmp, early, blurred, overlap>>

\* A pull request without an updated_at is compared with nothing: any diff is fresh.
ServeUndated(v) ==
  /\ view[v].pc = "read" /\ diff # NoDiff
  /\ view' = [view EXCEPT ![v] = [pc |-> "served", version |-> Nobody, got |-> Text(diff)]]
  /\ UNCHANGED <<github, mirror, diff, diffTmp, early, blurred, overlap>>

\* git diff of the version's commits, fetched where they are missing; or it fails.
\* Where the local clock is behind, and after updates without a push, a diff need not
\* count as fresh though it is later than the version's push.
computePRDiff(v) ==
  /\ view[v].pc = "read" /\ (~diffFileFresh(view[v].version) \/ Behind)
  /\ See(v, "computed") \/ See(v, "idle")
  /\ UNCHANGED <<github, mirror, diff, diffTmp, early, blurred, overlap>>

Writers == {v \in Viewer : view[v].pc \in {"fill", "rename"}}

\* The .tmp as the request writes it now, later than the pushes there are.
Written(v, all) == [of |-> view[v].version, upto |-> pushes, whole |-> all]

EmptyDiff(v) ==
  /\ view[v].pc = "computed"
  /\ diffTmp' = Written(v, FALSE)
  /\ See(v, "fill")
  /\ overlap' = (overlap \/ Writers # {})
  /\ early' = (early \/ view[v].version < pushes)
  /\ UNCHANGED <<github, mirror, diff, blurred>>

FillDiff(v) ==
  /\ view[v].pc = "fill"
  /\ diffTmp' = Written(v, TRUE)
  /\ See(v, "rename")
  /\ early' = (early \/ view[v].version < pushes)
  /\ UNCHANGED <<github, mirror, diff, blurred, overlap>>

\* The rename may find the .tmp gone, which is nobody's concern.
RenameDiff(v) ==
  /\ view[v].pc = "rename"
  /\ diff' = IF diffTmp = NoDiff THEN diff ELSE diffTmp
  /\ diffTmp' = NoDiff
  /\ view' = [view EXCEPT ![v] =
                [@ EXCEPT !.pc = "served", !.got = [of |-> view[v].version, whole |-> TRUE]]]
  /\ UNCHANGED <<github, mirror, early, blurred, overlap>>

Done(v) ==
  /\ view[v].pc = "served"
  /\ view' = [view EXCEPT ![v] = Asked]
  /\ UNCHANGED <<github, mirror, diff, diffTmp, early, blurred, overlap>>

------------------------------------------------------------------------------

Next ==
  \/ Create \/ Push
  \/ \E s \in Syncer : \/ StartSync(s) \/ ListPage(s) \/ EmptyTmp(s) \/ FillTmp(s) \/ Rename(s)
                       \/ WriteIndex(s) \/ Finish(s)
  \/ \E v \in Viewer : \/ ReadPR(v) \/ ServeCached(v) \/ ServeUndated(v) \/ computePRDiff(v)
                       \/ EmptyDiff(v) \/ FillDiff(v) \/ RenameDiff(v) \/ Done(v)

Spec == Init /\ [][Next]_vars

------------------------------------------------------------------------------

\* Every variable has its type; at most one sync runs, and "syncing" tells.
TypeOK ==
  /\ top \in Item /\ pushes \in 0..MaxPushes /\ syncs \in 0..MaxSyncs
  /\ syncing <=> \E s \in Syncer : ~At(s, "idle")
  /\ \A s \in Syncer : sync[s].pc \in {"idle", "list", "item", "fill", "rename", "meta"}
  /\ \A n \in Item : cached[n].version \in {Nobody} \cup 0..pushes
  /\ \A k \in Kind : index[k] \subseteq {n \in Item : KindOf[n] = k}
  /\ diff.of \in Nobody..pushes /\ diff.upto \in Nobody..pushes
  /\ early \in BOOLEAN /\ blurred \in BOOLEAN /\ overlap \in BOOLEAN

\* A list shows everything there was when its sync began, though the pages shift as
\* items are created, and shows nothing whose file is not there or was not written whole.
ListsAreComplete ==
  \A k \in Kind :
    /\ {n \in 1..covers[k] : KindOf[n] = k} \subseteq index[k]
    /\ \A n \in index[k] : cached[n] # NoFile /\ cached[n].whole

\* The diff that is served is whole, and not of commits older than those the cached
\* pull request named when it was asked for, where that has an updated_at; but for the
\* three windows (diffFileFresh).
DiffIsOfItsPR ==
  \A v \in Viewer :
    view[v].pc = "served" =>
      /\ view[v].got.of >= view[v].version \/ early \/ blurred
      /\ view[v].got.whole \/ overlap

==============================================================================
