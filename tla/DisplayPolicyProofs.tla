-------------------------- MODULE DisplayPolicyProofs --------------------------
(***************************************************************************)
(* Theorems about DisplayPolicy for every cutting of the screen into cells *)
(* and regions and every limit.                                            *)
(*                                                                         *)
(* A full refresh sets every counter back, so most of the work is in the   *)
(* partial ones and in the calls that refresh nothing: there the caches    *)
(* must still say what kind of image the panel shows.                      *)
(***************************************************************************)
EXTENDS DisplayPolicy, TLAPS

Dash == {"plain", "github"}
Uncounted == Results \union {"none"}
Rtc == [first : BOOLEAN, red : BOOLEAN, content : BOOLEAN, bwValid : BOOLEAN,
        counts : [1 .. MaxRegions -> Nat], footers : Nat, clear : BOOLEAN, renders : Nat,
        github : BOOLEAN, layout : BOOLEAN]
Framed(image) == image = [bw |-> image.bw, red |-> image.red]

USE DEF MaxRegions
----------------------------------------------------------------------------
\* What each kind of refresh does to the caches and counters.

\* Nothing of the past is left after a full refresh.
AfterFull(image, needRed, r) ==
    /\ glass' = image /\ buf' = image.bw
    /\ rtc' \in Rtc
    /\ rtc'.first /\ rtc'.bwValid /\ rtc'.red = (variant = "BWR" /\ needRed)
    /\ rtc'.counts = NoCounts /\ rtc'.footers = 0 /\ rtc'.renders = 0
    /\ rtc'.content = r.content /\ rtc'.clear = r.clear
    /\ rtc'.github = r.github /\ rtc'.layout = r.layout
    /\ ghost' = [c \in Cells |-> 0] /\ since' = 0

LEMMA FullRefresh ==
    ASSUME NEW image, NEW needRed \in BOOLEAN, NEW r \in Rtc, NEW why,
           Full(image, needRed, r, why)
    PROVE  AfterFull(image, needRed, r)
<1>1. NoCounts \in [1 .. MaxRegions -> Nat]
  BY DEF NoCounts
<1>2. rtc' \in Rtc
  BY <1>1 DEF Full, Rtc
<1> QED
  BY <1>2 DEF Full, AfterFull

\* The updates of the caches that no full refresh follows.
LEMMA RenderedKeeps ==
    ASSUME rtc \in Rtc, NEW github \in BOOLEAN
    PROVE  /\ Rendered(github) \in Rtc
           /\ Rendered(github).first = rtc.first /\ Rendered(github).red = rtc.red
           /\ Rendered(github).bwValid = rtc.bwValid /\ Rendered(github).counts = rtc.counts
           /\ Rendered(github).footers = rtc.footers /\ Rendered(github).renders = rtc.renders
           /\ ~Rendered(github).clear /\ Rendered(github).content
           /\ variant = "BW" => Rendered(github).layout /\ Rendered(github).github = github
  BY DEF Rtc, Rendered

LEMMA TickKeeps ==
    ASSUME NEW r \in Rtc
    PROVE  /\ Tick(r) \in Rtc /\ Tick(r).renders = r.renders + 1
           /\ Tick(r).counts = r.counts /\ Tick(r).footers = r.footers
           /\ Tick(r).first = r.first /\ Tick(r).red = r.red /\ Tick(r).content = r.content
           /\ Tick(r).bwValid = r.bwValid /\ Tick(r).clear = r.clear
           /\ Tick(r).github = r.github /\ Tick(r).layout = r.layout
  BY DEF Rtc, Tick

FootersSet(r, m, n) == [r EXCEPT !.footers = m, !.renders = n]

LEMMA FooterKeeps ==
    ASSUME NEW r \in Rtc, NEW m \in Nat, NEW n \in Nat
    PROVE  LET q == FootersSet(r, m, n) IN
           /\ q \in Rtc /\ q.footers = m /\ q.renders = n /\ q.counts = r.counts
           /\ q.first = r.first /\ q.red = r.red /\ q.content = r.content
           /\ q.bwValid = r.bwValid /\ q.clear = r.clear
           /\ q.github = r.github /\ q.layout = r.layout
<1>1. PICK a : a = [r EXCEPT !.footers = m]
  OBVIOUS
<1>2. a \in Rtc /\ a.footers = m /\ a.renders = r.renders /\ a.counts = r.counts
           /\ a.first = r.first /\ a.red = r.red /\ a.content = r.content
           /\ a.bwValid = r.bwValid /\ a.clear = r.clear
           /\ a.github = r.github /\ a.layout = r.layout
  BY <1>1 DEF Rtc
<1>3. PICK q : q = [a EXCEPT !.renders = n]
  OBVIOUS
<1>4. q \in Rtc /\ q.footers = m /\ q.renders = n /\ q.counts = r.counts
           /\ q.first = r.first /\ q.red = r.red /\ q.content = r.content
           /\ q.bwValid = r.bwValid /\ q.clear = r.clear
           /\ q.github = r.github /\ q.layout = r.layout
  BY <1>2, <1>3 DEF Rtc
<1> QED
  BY <1>1, <1>3, <1>4 DEF FootersSet

CountsSet(r, counts, n) == [r EXCEPT !.counts = counts, !.renders = n]

LEMMA RegionsKeep ==
    ASSUME NEW r \in Rtc, NEW counts \in [1 .. MaxRegions -> Nat], NEW n \in Nat
    PROVE  LET q == CountsSet(r, counts, n) IN
           /\ q \in Rtc /\ q.counts = counts /\ q.renders = n /\ q.footers = r.footers
           /\ q.first = r.first /\ q.red = r.red /\ q.content = r.content
           /\ q.bwValid = r.bwValid /\ q.clear = r.clear
           /\ q.github = r.github /\ q.layout = r.layout
<1>1. PICK a : a = [r EXCEPT !.counts = counts]
  OBVIOUS
<1>2. /\ a \in Rtc /\ a.counts = counts /\ a.renders = r.renders /\ a.footers = r.footers
      /\ a.first = r.first /\ a.red = r.red /\ a.content = r.content
      /\ a.bwValid = r.bwValid /\ a.clear = r.clear
      /\ a.github = r.github /\ a.layout = r.layout
  BY <1>1 DEF Rtc
<1>3. PICK q : q = [a EXCEPT !.renders = n]
  OBVIOUS
<1>4. /\ q \in Rtc /\ q.counts = counts /\ q.renders = n /\ q.footers = r.footers
      /\ q.first = r.first /\ q.red = r.red /\ q.content = r.content
      /\ q.bwValid = r.bwValid /\ q.clear = r.clear
      /\ q.github = r.github /\ q.layout = r.layout
  BY <1>2, <1>3 DEF Rtc
<1> QED
  BY <1>1, <1>3, <1>4 DEF CountsSet

\* A partial refresh from the image that is on the panel gives the new one.
LEMMA DrivenShows ==
    ASSUME Framed(glass), buf = glass.bw, NEW window, NEW bw,
           bw = [c \in Cells |-> bw[c]], buf = [c \in Cells |-> buf[c]],
           Differ(buf, bw) \subseteq window
    PROVE  Driven(window, buf, bw) = [bw |-> bw, red |-> glass.red]
<1>1. [c \in Cells |-> IF c \in window /\ buf[c] # bw[c] THEN bw[c] ELSE glass.bw[c]]
        = [c \in Cells |-> bw[c]]
  BY DEF Differ
<1> QED
  BY <1>1 DEF Driven, Framed

\* The regions that a plan refreshes are all that differs.
LEMMA PlanCovers ==
    ASSUME NEW github \in BOOLEAN, NEW bw
    PROVE  Differ(buf, bw) \subseteq UNION {Layouts[github][i] : i \in Changed(bw, github)}
<1> SUFFICES ASSUME NEW c \in Differ(buf, bw)
             PROVE  c \in UNION {Layouts[github][i] : i \in Changed(bw, github)}
  OBVIOUS
<1>1. c \in UNION {Layouts[github][i] : i \in DOMAIN Layouts[github]}
  BY RegionsAssumption DEF Differ
<1>2. PICK i \in DOMAIN Layouts[github] : c \in Layouts[github][i]
  BY <1>1
<1> QED
  BY <1>2 DEF Changed
----------------------------------------------------------------------------
\* The image of the next partial refresh.

Drawn(bw) == bw = [c \in Cells |-> bw[c]]

BufferInv ==
    /\ rtc \in Rtc
    /\ Framed(glass)
    /\ Drawn(buf) /\ Drawn(data.bw) /\ data.needRed \in BOOLEAN
    /\ BufferTrue

LEMMA ImagesDrawn ==
    /\ \A kind : Drawn(Plain(kind))
    /\ \A bw, n : Drawn(WithAttempt(bw, n))
    /\ \A bw : Drawn(Sleeping(bw))
    /\ \A bw, red : Framed(Image(bw, red)) /\ Image(bw, red).bw = bw
  BY DEF Drawn, Plain, WithAttempt, Sleeping, Framed, Image

LEMMA FullBuffers ==
    ASSUME NEW image, Framed(image), Drawn(image.bw), NEW needRed, NEW r, AfterFull(image, needRed, r)
    PROVE  rtc' \in Rtc /\ Framed(glass)' /\ Drawn(buf)' /\ BufferTrue'
  BY DEF AfterFull, BufferTrue, Framed, Drawn

LEMMA PartialBuffers ==
    ASSUME BufferInv, rtc.bwValid, NEW bw, Drawn(bw), NEW window, Differ(buf, bw) \subseteq window,
           NEW r \in Rtc, Partial(bw, window, r)
    PROVE  rtc' \in Rtc /\ Framed(glass)' /\ Drawn(buf)' /\ BufferTrue'
<1>1. glass' = [bw |-> bw, red |-> glass.red]
  BY DrivenShows DEF Partial, BufferInv, BufferTrue, Drawn
<1> QED
  BY <1>1 DEF Partial, Buffer, BufferTrue, Framed, Drawn

\* The counters that a refresh of regions leaves.
Staged(github, bw) ==
    [i \in 1 .. MaxRegions |-> IF i \in Changed(bw, github) THEN rtc.counts[i] + 1 ELSE rtc.counts[i]]

LEMMA RegionsRefresh ==
    ASSUME rtc \in Rtc, NEW bw, NEW github \in BOOLEAN, RegionsDrawn(bw, github, Rendered(github))
    PROVE  LET r == [Rendered(github) EXCEPT !.counts = Staged(github, bw), !.renders = rtc.renders + 1]
           IN /\ Staged(github, bw) \in [1 .. MaxRegions -> Nat] /\ r \in Rtc
              /\ Partial(bw, UNION {Layouts[github][i] : i \in Changed(bw, github)}, r)
<1>1. Rendered(github).counts = rtc.counts /\ Rendered(github).renders = rtc.renders
  BY RenderedKeeps
<1>2. Staged(github, bw) \in [1 .. MaxRegions -> Nat] /\ rtc.renders + 1 \in Nat
  BY DEF Staged, Rtc
<1>3. [Rendered(github) EXCEPT !.counts = Staged(github, bw), !.renders = rtc.renders + 1] \in Rtc
  BY <1>2, RenderedKeeps, RegionsKeep DEF CountsSet
<1>4. Partial(bw, UNION {Layouts[github][i] : i \in Changed(bw, github)},
              [Rendered(github) EXCEPT !.counts = Staged(github, bw), !.renders = rtc.renders + 1])
  BY <1>1 DEF RegionsDrawn, Staged
<1> QED
  BY <1>2, <1>3, <1>4

LEMMA RenderBuffers ==
    ASSUME BufferInv, NEW bw \in [Cells -> {"dash"} \X Inks], NEW red \in Reds, NEW alert \in BOOLEAN,
           NEW github \in BOOLEAN, NEW seen \in Seen, Render(bw, red, alert, github, seen)
    PROVE  BufferInv'
<1> DEFINE image == Image(bw, red)
           needRed == variant = "BWR" /\ alert
           same == ~ForcesFull(github) /\ Unchanged(bw, needRed)
           regions == ~ForcesFull(github) /\ ~same /\ Eligible(needRed, seen) /\ Planned(bw, github)
           r == Rendered(github)
<1>1. Drawn(bw) /\ Framed(image) /\ image.bw = bw
  BY ImagesDrawn DEF Drawn
<1>2. Drawn(data.bw)' /\ data'.needRed \in BOOLEAN
  BY <1>1 DEF Render, Drawn
<1>3. r \in Rtc /\ rtc \in Rtc /\ r.bwValid = rtc.bwValid
  BY RenderedKeeps DEF BufferInv
<1>4. CASE same /\ Skip(Tick(r))
  BY <1>2, <1>3, <1>4, TickKeeps DEF Skip, BufferInv, BufferTrue, Framed, Drawn
<1>5. CASE regions /\ RegionsDrawn(bw, github, r)
  <2>1. rtc.bwValid
    BY <1>5 DEF Eligible
  <2>2. PICK q \in Rtc : Partial(bw, UNION {Layouts[github][i] : i \in Changed(bw, github)}, q)
    BY <1>3, <1>5, RegionsRefresh
  <2>3. Differ(buf, bw) \subseteq UNION {Layouts[github][i] : i \in Changed(bw, github)}
    BY PlanCovers
  <2>4. rtc' \in Rtc /\ Framed(glass)' /\ Drawn(buf)' /\ BufferTrue'
    BY <1>1, <2>1, <2>2, <2>3, PartialBuffers
  <2> QED
    BY <1>2, <2>4 DEF BufferInv
<1>6. CASE \E why : Full(image, needRed, r, why)
  <2>1. needRed \in BOOLEAN
    OBVIOUS
  <2> HIDE DEF r, image, needRed
  <2> QED
    BY <1>1, <1>2, <1>3, <1>6, <2>1, FullRefresh, FullBuffers DEF BufferInv
<1> QED
  BY <1>4, <1>5, <1>6 DEF Render

LEMMA FullKeepsBuffers ==
    ASSUME BufferInv, data' = data, NEW image, Framed(image), Drawn(image.bw),
           NEW needRed \in BOOLEAN, NEW r \in Rtc, NEW why, Full(image, needRed, r, why)
    PROVE  BufferInv'
  BY FullRefresh, FullBuffers DEF BufferInv, Framed, Drawn

LEMMA SkipKeepsBuffers ==
    ASSUME BufferInv, data' = data, Skip(rtc)
    PROVE  BufferInv'
  BY DEF Skip, BufferInv, BufferTrue, Framed, Drawn

LEMMA OutageBuffers ==
    ASSUME BufferInv, NEW reason \in Outages, NEW n \in Attempts, NEW seen \in Seen,
           ShowOffline(reason, n, seen)
    PROVE  BufferInv'
<1> DEFINE counted == WithAttempt(buf, n)
           r == [rtc EXCEPT !.footers = @ + 1, !.renders = @ + 1]
<1>1. Drawn(counted) /\ rtc \in Rtc
  BY ImagesDrawn DEF BufferInv
<1>2. data' = data
  BY DEF ShowOffline
<1>3. CASE \E image, why : Framed(image) /\ Drawn(image.bw) /\ Full(image, TRUE, rtc, why)
  BY <1>1, <1>2, <1>3, FullKeepsBuffers
<1>4. CASE Skip(rtc)
  BY <1>2, <1>4, SkipKeepsBuffers
<1>5. CASE SameOutage(reason, seen) /\ Partial(counted, FooterCells, r)
  <2>1. rtc.bwValid
    BY <1>5 DEF SameOutage
  <2>2. Differ(buf, counted) \subseteq FooterCells
    BY DEF Differ, WithAttempt
  <2>3. rtc.footers + 1 \in Nat /\ rtc.renders + 1 \in Nat
    BY <1>1 DEF Rtc
  <2>4. r = FootersSet(rtc, rtc.footers + 1, rtc.renders + 1)
    BY DEF FootersSet
  <2> HIDE DEF counted, r
  <2>5. r \in Rtc
    BY <1>1, <2>3, <2>4, FooterKeeps
  <2> QED
    BY <1>1, <1>2, <1>5, <2>1, <2>2, <2>5, PartialBuffers DEF BufferInv, Framed, Drawn
<1>6. Framed(Poster(reason, n)) /\ Drawn(Poster(reason, n).bw)
  BY ImagesDrawn DEF Poster
<1>7. Framed(Image(counted, 0)) /\ Drawn(Image(counted, 0).bw)
  BY <1>1, ImagesDrawn
<1> QED
  BY <1>3, <1>4, <1>5, <1>6, <1>7 DEF ShowOffline

\* The calls that only ever refresh in full, or not at all
LEMMA PageBuffers ==
    ASSUME BufferInv,
           \/ ShowSleeping
           \/ \E kind \in Pages : ShowPage(kind)
           \/ \E powerOn \in BOOLEAN, seen \in Seen : ShowTimeout(powerOn, seen)
    PROVE  BufferInv'
<1>1. data' = data
  BY DEF ShowSleeping, ShowPage, ShowTimeout
<1>2. CASE ShowSleeping
  <2> DEFINE image == [bw |-> Sleeping(data.bw), red |-> data.red]
             r == [rtc EXCEPT !.clear = TRUE]
  <2>1. Framed(image) /\ Drawn(image.bw) /\ data.needRed \in BOOLEAN
    BY ImagesDrawn DEF BufferInv, Framed
  <2>2. r \in Rtc
    BY DEF BufferInv, Rtc
  <2>3. Full(image, data.needRed, r, "full")
    BY <1>2 DEF ShowSleeping
  <2> HIDE DEF image, r
  <2> QED
    BY <1>1, <2>1, <2>2, <2>3, FullKeepsBuffers
<1>3. ASSUME NEW kind \in Pages, ShowPage(kind)
      PROVE  BufferInv'
  <2> DEFINE image == Image(Plain(kind), IF kind = "ota" THEN 1 ELSE 0)
  <2>1. Framed(image) /\ Drawn(image.bw)
    BY ImagesDrawn
  <2>2. Full(image, kind \in {"ota", "confirm"}, rtc, "full")
    BY <1>3 DEF ShowPage
  <2>3. (kind \in {"ota", "confirm"}) \in BOOLEAN /\ rtc \in Rtc
    BY DEF BufferInv
  <2> HIDE DEF image
  <2> QED
    BY <1>1, <2>1, <2>2, <2>3, FullKeepsBuffers
<1>4. ASSUME NEW powerOn \in BOOLEAN, NEW seen \in Seen, ShowTimeout(powerOn, seen)
      PROVE  BufferInv'
  <2> DEFINE image == Image(Plain("timeout"), 0)
  <2>1. Framed(image) /\ Drawn(image.bw) /\ rtc \in Rtc
    BY ImagesDrawn DEF BufferInv
  <2>2. Skip(rtc) \/ Full(image, FALSE, rtc, "full")
    BY <1>4 DEF ShowTimeout
  <2> HIDE DEF image
  <2> QED
    BY <1>1, <2>1, <2>2, FullKeepsBuffers, SkipKeepsBuffers
<1> QED
  BY <1>2, <1>3, <1>4

LEMMA ResultBuffers ==
    ASSUME BufferInv, NEW kind \in Results, ShowResult(kind)
    PROVE  BufferInv'
<1> DEFINE image == Image(Plain(kind), 0)
<1>1. Framed(image) /\ Drawn(image.bw) /\ rtc \in Rtc /\ data' = data
  BY ImagesDrawn DEF BufferInv, ShowResult
<1>2. CASE \E why : Full(image, FALSE, rtc, why)
  <2> HIDE DEF image
  <2> QED
    BY <1>1, <1>2, FullKeepsBuffers
<1>3. CASE rtc.bwValid /\ Partial(image.bw, Cells, rtc)
  <2>1. Differ(buf, image.bw) \subseteq Cells
    BY DEF Differ
  <2> HIDE DEF image
  <2>2. rtc' \in Rtc /\ Framed(glass)' /\ Drawn(buf)' /\ BufferTrue'
    BY <1>1, <1>3, <2>1, PartialBuffers
  <2> QED
    BY <1>1, <2>2 DEF BufferInv, Framed, Drawn
<1> QED
  BY <1>2, <1>3 DEF ShowResult

LEMMA RestartBuffers ==
    ASSUME BufferInv, Restart
    PROVE  BufferInv'
<1>1. NoCounts \in [1 .. MaxRegions -> Nat]
  BY DEF NoCounts
<1>2. rtc' \in Rtc /\ ~rtc'.bwValid
  BY <1>1 DEF Restart, RtcStart, Rtc
<1>3. Framed(glass)' /\ Drawn(buf)' /\ Drawn(data.bw)' /\ data'.needRed \in BOOLEAN
  BY DEF Restart, BufferInv, Framed, Drawn, Blank, NoData, Plain
<1> QED
  BY <1>2, <1>3 DEF BufferInv, BufferTrue

LEMMA BuffersStart == ASSUME Init PROVE BufferInv
<1>1. NoCounts \in [1 .. MaxRegions -> Nat]
  BY DEF NoCounts
<1>2. rtc \in Rtc /\ ~rtc.bwValid
  BY <1>1 DEF Init, RtcStart, Rtc
<1>3. Framed(glass) /\ Drawn(buf) /\ Drawn(data.bw) /\ data.needRed \in BOOLEAN
  BY DEF Init, Framed, Drawn, Blank, NoData, Plain
<1> QED
  BY <1>2, <1>3 DEF BufferInv, BufferTrue

\* A dashboard that Next draws.
LEMMA NextRender ==
    \A drawn \in RedParts : drawn.red \in Reds /\ drawn.alert \in BOOLEAN
  BY LimitsAssumption DEF RedParts

LEMMA BuffersStep == ASSUME BufferInv, [Next]_vars PROVE BufferInv'
<1>1. CASE UNCHANGED vars
  BY <1>1 DEF vars, BufferInv, BufferTrue, Framed, Drawn
<1>2. ASSUME NEW bw \in [Cells -> {"dash"} \X Inks], NEW red \in Reds, NEW alert \in BOOLEAN,
             NEW github \in BOOLEAN, NEW seen \in Seen, Render(bw, red, alert, github, seen)
      PROVE  BufferInv'
  BY <1>2, RenderBuffers
<1>3. ASSUME NEW reason \in Outages, NEW n \in Attempts, NEW seen \in Seen,
             ShowOffline(reason, n, seen)
      PROVE  BufferInv'
  BY <1>3, OutageBuffers
<1>4. ASSUME NEW kind \in Results, ShowResult(kind)
      PROVE  BufferInv'
  BY <1>4, ResultBuffers
<1>5. CASE Restart
  BY <1>5, RestartBuffers
<1>6. CASE \/ ShowSleeping
           \/ \E kind \in Pages : ShowPage(kind)
           \/ \E powerOn \in BOOLEAN, seen \in Seen : ShowTimeout(powerOn, seen)
  BY <1>6, PageBuffers
<1> QED
  BY <1>1, <1>2, <1>3, <1>4, <1>5, <1>6, NextRender DEF Next

LEMMA BuffersAlways == Spec => []BufferInv
<1>1. Init => BufferInv
  BY BuffersStart
<1>2. BufferInv /\ [Next]_vars => BufferInv'
  BY BuffersStep
<1> QED
  BY <1>1, <1>2, PTL DEF Spec

\* Whatever is drawn, fails or is interrupted, s_last_bw_buf is the image on the
\* panel when a partial refresh may start from it.
THEOREM BufferIsTrue == Spec => []BufferTrue
<1>1. BufferInv => BufferTrue
  BY DEF BufferInv
<1> QED
  BY <1>1, BuffersAlways, PTL
----------------------------------------------------------------------------
(***************************************************************************)
(* The counters.  A mark that flash did not take, or that the sleeping page *)
(* left behind, makes a call mistake what is on the panel.  Still only one  *)
(* kind of counter is in use at a time: regions are counted while the mark  *)
(* and the panel are a dashboard's, footers while the mark is a poster's.   *)
(***************************************************************************)
CountTypes == variant \in Variants /\ since \in Nat /\ ghost \in [Cells -> Nat]

Begun ==
    /\ asked.kind = "none" => ~rtc.first /\ ~rtc.bwValid
    /\ asked.kind # "none" => rtc.first /\ rtc.bwValid /\ (variant = "BW" => ~rtc.red)

MarkKept ==
    "mark" \notin slips =>
        /\ asked.kind \in Dash => frame = "content"
        /\ asked.kind \in Outages => frame = asked.kind

NotDash ==
    variant = "BW" /\ asked.kind \notin Dash \union {"none"} =>
        \A c \in FooterCells : buf[c][1] # "dash"

ContentKnown ==
    /\ asked.kind = "sleeping" => rtc.clear
    /\ asked.kind \in Dash =>
          /\ ~rtc.clear /\ rtc.content
          /\ variant = "BW" => rtc.layout /\ (rtc.github <=> asked.kind = "github")

Counted == asked.kind \notin Uncounted => since = rtc.renders /\ rtc.renders < RenderCap

ByRegions == asked.kind \in Dash /\ frame = "content"

RegionGhosts ==
    ByRegions =>
        /\ \A i \in 1 .. MaxRegions : rtc.counts[i] <= MaxPartials /\ rtc.counts[i] <= since
        /\ \A github \in BOOLEAN : (github <=> asked.kind = "github") =>
              \A i \in DOMAIN Layouts[github] : \A c \in Layouts[github][i] : ghost[c] <= rtc.counts[i]
        /\ variant = "BWR" => \A c \in Cells : ghost[c] = 0
        /\ rtc.footers = 0

FooterGhosts ==
    asked.kind \notin Uncounted /\ ~ByRegions =>
        /\ rtc.footers <= MaxPartials /\ rtc.footers <= since
        /\ \A c \in Cells : ghost[c] <= rtc.footers
        /\ \A i \in 1 .. MaxRegions : rtc.counts[i] = 0
        /\ rtc.footers # 0 => variant = "BW" /\ asked.kind \in Outages /\ frame \in Outages

CountInv ==
    /\ BufferInv /\ CountTypes /\ Begun /\ MarkKept /\ NotDash /\ ContentKnown
    /\ Counted /\ RegionGhosts /\ FooterGhosts

LEMMA RegionsFit ==
    /\ FooterCells \subseteq Cells /\ FooterCells # {}
    /\ \A github \in BOOLEAN : /\ DOMAIN Layouts[github] \subseteq 1 .. MaxRegions
                               /\ \A i \in DOMAIN Layouts[github] : Layouts[github][i] \subseteq Cells
  BY LayoutsAssumption, RegionsAssumption

LEMMA FullCounts ==
    ASSUME CountInv, NEW image, NEW needRed \in BOOLEAN, NEW r, AfterFull(image, needRed, r),
           NEW kind, kind # "none", Asked(kind, image), variant' = variant
    PROVE  CountTypes' /\ Begun' /\ Counted' /\ RegionGhosts' /\ FooterGhosts'
<1>1. asked'.kind = kind
  BY DEF Asked
<1>2. CountTypes'
  BY DEF AfterFull, CountInv, CountTypes
<1>3. Begun'
  BY <1>1 DEF AfterFull, Begun
<1>4. Counted'
  BY LimitsAssumption DEF AfterFull, Counted
<1>5. \A i \in 1 .. MaxRegions : rtc'.counts[i] = 0
  BY DEF AfterFull, NoCounts
<1>6. \A c \in Cells : ghost'[c] = 0
  BY DEF AfterFull
<1>7. RegionGhosts'
  <2>1. \A github \in BOOLEAN : \A i \in DOMAIN Layouts[github] :
           \A c \in Layouts[github][i] : ghost'[c] <= rtc'.counts[i]
    BY <1>5, <1>6, RegionsFit
  <2>2. \A i \in 1 .. MaxRegions : rtc'.counts[i] <= MaxPartials /\ rtc'.counts[i] <= since'
    BY <1>5, LimitsAssumption DEF AfterFull
  <2> QED
    BY <1>6, <2>1, <2>2 DEF RegionGhosts, AfterFull
<1>8. FooterGhosts'
  BY <1>5, <1>6, LimitsAssumption DEF AfterFull, FooterGhosts
<1> QED
  BY <1>2, <1>3, <1>4, <1>7, <1>8

\* A page that is put up in full.
LEMMA PageCounts ==
    ASSUME CountInv, BufferInv', NEW image, NEW needRed \in BOOLEAN, NEW r \in Rtc, NEW why,
           Full(image, needRed, r, why), NEW kind, kind \notin Dash \union Outages \union {"none"},
           kind = "sleeping" => r.clear, Asked(kind, image), variant' = variant,
           \A c \in FooterCells : image.bw[c][1] # "dash"
    PROVE  CountInv'
<1>1. AfterFull(image, needRed, r)
  BY FullRefresh
<1>2. CountTypes' /\ Begun' /\ Counted' /\ RegionGhosts' /\ FooterGhosts'
  BY <1>1, FullCounts
<1>3. asked'.kind = kind
  BY DEF Asked
<1>4. MarkKept'
  BY <1>3 DEF MarkKept
<1>5. NotDash'
  BY <1>1, <1>3 DEF NotDash, AfterFull
<1>6. ContentKnown'
  BY <1>1, <1>3 DEF ContentKnown, AfterFull
<1> QED
  BY <1>2, <1>4, <1>5, <1>6 DEF CountInv

LEMMA PlainIsNotDash ==
    ASSUME NEW kind, kind # "dash"
    PROVE  /\ \A c \in FooterCells : Plain(kind)[c][1] # "dash"
           /\ \A n : \A c \in FooterCells : WithAttempt(Plain(kind), n)[c][1] # "dash"
           /\ \A bw : \A c \in FooterCells : Sleeping(bw)[c][1] # "dash"
  BY RegionsFit DEF Plain, WithAttempt, Sleeping

LEMMA MarkTakes ==
    ASSUME NEW f, NEW others, Mark(f, others)
    PROVE  frame' = f \/ "mark" \in slips'
  BY DEF Mark

LEMMA ShowPageCounts ==
    ASSUME CountInv, BufferInv', NEW kind \in Pages, ShowPage(kind)
    PROVE  CountInv'
<1> DEFINE image == Image(Plain(kind), IF kind = "ota" THEN 1 ELSE 0)
           needRed == kind \in {"ota", "confirm"}
<1>1. Full(image, needRed, rtc, "full") /\ Asked(kind, image) /\ variant' = variant
  BY DEF ShowPage
<1>2. kind \notin Dash \union {"none", "sleeping", "dash"} /\ kind \notin Outages
  BY DEF Dash, Pages, Outages
<1>3. \A c \in FooterCells : image.bw[c][1] # "dash"
  BY <1>2, PlainIsNotDash, ImagesDrawn
<1>4. rtc \in Rtc /\ needRed \in BOOLEAN
  BY DEF CountInv, BufferInv
<1> HIDE DEF image, needRed
<1> QED
  BY <1>1, <1>2, <1>3, <1>4, PageCounts

LEMMA ShowTimeoutCounts ==
    ASSUME CountInv, BufferInv', NEW powerOn \in BOOLEAN, NEW seen \in Seen, ShowTimeout(powerOn, seen)
    PROVE  CountInv'
<1> DEFINE image == Image(Plain("timeout"), 0)
<1>1. CASE seen = "timeout" /\ ~powerOn
  <2>1. Skip(rtc) /\ since' = since /\ frame' = frame /\ variant' = variant /\ Asked("timeout", image)
    BY <1>1 DEF ShowTimeout
  <2>2. asked.kind = "qr" /\ asked'.kind = "timeout"
    BY <2>1 DEF ShowTimeout, Asked
  <2>3. CountTypes' /\ Begun' /\ Counted'
    BY <2>1, <2>2 DEF Skip, CountInv, CountTypes, Begun, Counted, Uncounted, Results
  <2>4. RegionGhosts' /\ ContentKnown' /\ MarkKept'
    BY <2>2 DEF RegionGhosts, ByRegions, ContentKnown, MarkKept, Dash, Outages
  <2>5. FooterGhosts'
    BY <2>1, <2>2 DEF Skip, CountInv, FooterGhosts, ByRegions, Dash, Outages, Uncounted, Results
  <2>6. NotDash'
    BY <2>1, <2>2 DEF Skip, CountInv, NotDash, Dash
  <2> QED
    BY <2>3, <2>4, <2>5, <2>6 DEF CountInv
<1>2. CASE ~(seen = "timeout" /\ ~powerOn)
  <2>1. Full(image, FALSE, rtc, "full") /\ Asked("timeout", image) /\ variant' = variant
    BY <1>2 DEF ShowTimeout
  <2>2. \A c \in FooterCells : image.bw[c][1] # "dash"
    BY PlainIsNotDash, ImagesDrawn
  <2>3. rtc \in Rtc
    BY DEF CountInv, BufferInv
  <2> HIDE DEF image
  <2> QED
    BY <2>1, <2>2, <2>3, PageCounts DEF Dash, Outages
<1> QED
  BY <1>1, <1>2

LEMMA ShowSleepingCounts ==
    ASSUME CountInv, BufferInv', ShowSleeping
    PROVE  CountInv'
<1> DEFINE image == [bw |-> Sleeping(data.bw), red |-> data.red]
           r == [rtc EXCEPT !.clear = TRUE]
<1>1. Full(image, data.needRed, r, "full") /\ Asked("sleeping", image) /\ variant' = variant
  BY DEF ShowSleeping
<1>2. r \in Rtc /\ r.clear /\ data.needRed \in BOOLEAN
  BY DEF CountInv, BufferInv, Rtc
<1>3. \A c \in FooterCells : image.bw[c][1] # "dash"
  BY PlainIsNotDash
<1> HIDE DEF image, r
<1> QED
  BY <1>1, <1>2, <1>3, PageCounts DEF Dash, Outages

LEMMA ShowResultCounts ==
    ASSUME CountInv, BufferInv', NEW kind \in Results, ShowResult(kind)
    PROVE  CountInv'
<1> DEFINE image == Image(Plain(kind), 0)
<1>1. Asked(kind, image) /\ variant' = variant /\ rtc \in Rtc /\ asked.kind \in {"confirm", "fail"}
  BY DEF ShowResult, CountInv, BufferInv
<1>2. kind \notin Dash \union Outages \union {"none", "sleeping", "dash"} /\ kind \in Uncounted
  BY DEF Dash, Outages, Results, Uncounted
<1>3. \A c \in FooterCells : image.bw[c][1] # "dash"
  BY <1>2, PlainIsNotDash, ImagesDrawn
<1>4. CASE \E why : Full(image, FALSE, rtc, why)
  <2> HIDE DEF image
  <2> QED
    BY <1>1, <1>2, <1>3, <1>4, PageCounts
<1>5. CASE Partial(image.bw, Cells, rtc)
  <2>1. asked'.kind = kind
    BY <1>1 DEF Asked
  <2>2. CountTypes'
    BY <1>1, <1>5 DEF Partial, CountInv, CountTypes
  <2>3. Begun'
    BY <1>1, <1>2, <1>5, <2>1 DEF Partial, CountInv, Begun
  <2>4. Counted' /\ RegionGhosts' /\ FooterGhosts' /\ ContentKnown' /\ MarkKept'
    BY <1>2, <2>1 DEF Counted, RegionGhosts, FooterGhosts, ByRegions, ContentKnown, MarkKept
  <2>5. NotDash'
    BY <1>3, <1>5, <2>1 DEF NotDash, Partial, Buffer
  <2> QED
    BY <2>2, <2>3, <2>4, <2>5 DEF CountInv
<1> QED
  BY <1>4, <1>5 DEF ShowResult

LEMMA RestartCounts ==
    ASSUME CountInv, BufferInv', Restart
    PROVE  CountInv'
<1>1. asked'.kind = "none" /\ rtc' = RtcStart /\ variant' \in Variants /\ UNCHANGED <<ghost, since>>
  BY DEF Restart
<1>2. CountTypes' /\ Begun'
  BY <1>1 DEF CountInv, CountTypes, Begun, RtcStart
<1>3. MarkKept' /\ NotDash' /\ ContentKnown' /\ Counted' /\ RegionGhosts' /\ FooterGhosts'
  BY <1>1 DEF MarkKept, NotDash, ContentKnown, Counted, RegionGhosts, FooterGhosts, ByRegions,
              Dash, Outages, Uncounted
<1> QED
  BY <1>2, <1>3 DEF CountInv

\* A call that takes what is on the panel for its own poster
LEMMA SameOutageGhosts ==
    ASSUME CountInv, ~InPortal, NEW reason \in Outages, NEW seen \in Seen, SameOutage(reason, seen)
    PROVE  /\ frame = reason /\ asked.kind \notin Uncounted /\ ~ByRegions
           /\ rtc.footers <= MaxPartials /\ rtc.footers <= since
           /\ \A c \in Cells : ghost[c] <= rtc.footers
           /\ \A i \in 1 .. MaxRegions : rtc.counts[i] = 0
           /\ rtc.footers # 0 => variant = "BW"
           /\ since = rtc.renders /\ rtc.renders < RenderCap
<1>1. frame = reason
  BY DEF SameOutage, Seen, Outages
<1>2. asked.kind \notin Uncounted
  BY DEF SameOutage, CountInv, Begun, InPortal, Uncounted
<1>3. ~ByRegions
  BY <1>1 DEF ByRegions, Outages
<1> QED
  BY <1>1, <1>2, <1>3 DEF CountInv, Counted, FooterGhosts

LEMMA ShowOfflineCounts ==
    ASSUME CountInv, BufferInv', NEW reason \in Outages, NEW n \in Attempts, NEW seen \in Seen,
           ShowOffline(reason, n, seen)
    PROVE  CountInv'
<1> DEFINE counted == WithAttempt(buf, n)
           poster == Poster(reason, n)
           r == [rtc EXCEPT !.footers = @ + 1, !.renders = @ + 1]
           same == SameOutage(reason, seen)
<1>1. Asked(reason, poster) /\ variant' = variant /\ rtc \in Rtc /\ ~InPortal
  BY DEF ShowOffline, CountInv, BufferInv
<1>2. asked'.kind = reason
  BY <1>1 DEF Asked
<1>3. reason \notin Dash \union {"none", "sleeping", "dash", "content"} /\ reason \notin Uncounted
  BY DEF Dash, Outages, Uncounted, Results
<1>4. \A c \in FooterCells : counted[c][1] # "dash" /\ poster.bw[c][1] # "dash"
  BY <1>3, PlainIsNotDash, ImagesDrawn, RegionsFit DEF WithAttempt, Poster
<1>5. ContentKnown' /\ RegionGhosts' /\ ~ByRegions'
  BY <1>2, <1>3 DEF ContentKnown, RegionGhosts, ByRegions
<1>6. ASSUME NEW image, NEW others, NEW why, Full(image, TRUE, rtc, why), Mark(reason, others),
             \A c \in FooterCells : image.bw[c][1] # "dash"
      PROVE  CountInv'
  <2> HIDE DEF counted, poster, r
  <2>1. frame' = reason \/ "mark" \in slips'
    BY <1>6, MarkTakes
  <2>2. AfterFull(image, TRUE, rtc)
    BY <1>1, <1>6, FullRefresh
  <2>3. rtc'.first /\ rtc'.bwValid /\ (variant' = "BW" => ~rtc'.red) /\ buf' = image.bw
    BY <1>1, <2>2 DEF AfterFull
  <2>4. /\ CountTypes' /\ since' = 0 /\ rtc'.renders = 0 /\ rtc'.footers = 0
        /\ \A c \in Cells : ghost'[c] = 0
        /\ \A i \in 1 .. MaxRegions : rtc'.counts[i] = 0
    BY <1>1, <2>2 DEF AfterFull, CountInv, CountTypes, NoCounts
  <2>5. Begun' /\ NotDash' /\ MarkKept'
    BY <1>2, <1>3, <1>6, <2>1, <2>3 DEF Begun, NotDash, MarkKept
  <2>6. Counted' /\ FooterGhosts'
    BY <2>4, LimitsAssumption DEF Counted, FooterGhosts
  <2> QED
    BY <1>5, <2>4, <2>5, <2>6 DEF CountInv
<1>7. CASE ~same /\ Full(poster, TRUE, rtc, Why(seen)) /\ Mark(reason, {})
  BY <1>4, <1>6, <1>7
<1>8. CASE \E why : Full(Image(counted, 0), TRUE, rtc, why) /\ Mark(reason, slips)
  <2>1. \A c \in FooterCells : Image(counted, 0).bw[c][1] # "dash"
    BY <1>4, ImagesDrawn
  <2> HIDE DEF counted
  <2> QED
    BY <1>6, <1>8, <2>1
<1>9. CASE /\ same /\ (counted = buf \/ variant = "BWR")
           /\ Skip(rtc) /\ UNCHANGED <<since, frame, slips>>
  <2>1. rtc' = rtc /\ ghost' = ghost /\ buf' = buf /\ since' = since /\ frame' = reason
    BY <1>1, <1>9, SameOutageGhosts DEF Skip
  <2>2. CountTypes' /\ MarkKept'
    BY <1>1, <1>2, <1>3, <2>1 DEF CountInv, CountTypes, MarkKept
  <2>3. Begun'
    BY <1>1, <1>2, <1>3, <1>9, <2>1, SameOutageGhosts DEF CountInv, Begun, Uncounted
  <2>4. NotDash'
    BY <1>1, <1>4, <1>9, <2>1 DEF NotDash
  <2>5. Counted' /\ FooterGhosts'
    BY <1>1, <1>2, <1>9, <2>1, SameOutageGhosts DEF Counted, FooterGhosts
  <2> QED
    BY <1>5, <2>2, <2>3, <2>4, <2>5 DEF CountInv
<1>10. CASE /\ same /\ counted # buf /\ variant # "BWR" /\ FooterAllowed
            /\ Partial(counted, FooterCells, r) /\ UNCHANGED <<frame, slips>>
  <2>1. /\ rtc.footers \in Nat /\ rtc.renders \in Nat
        /\ rtc.footers < MaxPartials /\ rtc.renders + 1 < RenderCap
        /\ variant = "BW"
    BY <1>1, <1>10 DEF Rtc, FooterAllowed, CountInv, CountTypes, Variants
  <2>2. /\ rtc' = r /\ r.footers = rtc.footers + 1 /\ r.renders = rtc.renders + 1
        /\ r.first = rtc.first /\ r.bwValid = rtc.bwValid /\ r.red = rtc.red
        /\ r.counts = rtc.counts
    <3>1. rtc' = r
      BY <1>10 DEF Partial
    <3>2. rtc.footers + 1 \in Nat /\ rtc.renders + 1 \in Nat
      BY <2>1
    <3>3. r = FootersSet(rtc, rtc.footers + 1, rtc.renders + 1)
      BY DEF FootersSet
    <3> HIDE DEF r
    <3> QED
      BY <1>1, <3>1, <3>2, <3>3, FooterKeeps
  <2> HIDE DEF r
  <2>3. /\ since' = since + 1 /\ buf' = counted /\ frame' = reason
        /\ ghost' = [c \in Cells |-> IF c \in FooterCells THEN ghost[c] + 1 ELSE ghost[c]]
    BY <1>1, <1>10, SameOutageGhosts DEF Partial, Buffer
  <2>4. asked.kind # "none"
    BY <1>1, <1>10, SameOutageGhosts DEF Uncounted
  <2>5. CountTypes' /\ Begun' /\ NotDash' /\ MarkKept'
    BY <1>1, <1>2, <1>3, <1>4, <2>2, <2>3, <2>4 DEF CountInv, CountTypes, Begun, NotDash, MarkKept
  <2>6. Counted'
    BY <1>1, <1>10, <2>1, <2>2, <2>3, SameOutageGhosts DEF Counted, CountInv, CountTypes
  <2>7. FooterGhosts'
    BY <1>1, <1>2, <1>10, <2>1, <2>2, <2>3, SameOutageGhosts, LimitsAssumption
    DEF FooterGhosts, CountInv, CountTypes
  <2> QED
    BY <1>5, <2>5, <2>6, <2>7 DEF CountInv
<1> QED
  BY <1>7, <1>8, <1>9, <1>10 DEF ShowOffline


LEMMA RenderFullCounts ==
    ASSUME CountInv, BufferInv', NEW image, NEW needRed \in BOOLEAN, NEW why, NEW github \in BOOLEAN,
           Full(image, needRed, Rendered(github), why), variant' = variant,
           frame' = "content" \/ "mark" \in slips',
           Asked(IF github THEN "github" ELSE "plain", image)
    PROVE  CountInv'
<1> DEFINE r == Rendered(github)
<1>1. /\ r \in Rtc /\ ~r.clear /\ r.content
      /\ variant = "BW" => r.layout /\ r.github = github
  BY RenderedKeeps DEF CountInv, BufferInv
<1>2. asked'.kind = IF github THEN "github" ELSE "plain"
  BY DEF Asked
<1> HIDE DEF r
<1>3. AfterFull(image, needRed, r)
  BY <1>1, FullRefresh DEF r
<1>4. CountTypes' /\ Begun' /\ Counted' /\ RegionGhosts' /\ FooterGhosts'
  BY <1>3, FullCounts
<1>5. MarkKept' /\ NotDash'
  BY <1>2 DEF MarkKept, NotDash, Dash, Outages
<1>6. ContentKnown'
  BY <1>1, <1>2, <1>3 DEF ContentKnown, AfterFull, Dash
<1> QED
  BY <1>4, <1>5, <1>6 DEF CountInv

\* Before a partial or no refresh the counters of the regions bound the ghosts
\* for the layout that is asked for: no footer was counted since the last full
\* refresh, and regions only in that layout.
LEMMA RenderedBefore ==
    ASSUME CountInv, NEW github \in BOOLEAN, ~InPortal, ~ForcesFull(github), rtc.bwValid,
           asked.kind \in Dash \/ variant = "BWR" \/ frame = "content"
    PROVE  /\ asked.kind # "none" /\ since = rtc.renders /\ rtc.renders + 1 < RenderCap
           /\ rtc.footers = 0
           /\ \A i \in 1 .. MaxRegions :
                 rtc.counts[i] \in Nat /\ rtc.counts[i] <= MaxPartials /\ rtc.counts[i] <= since
           /\ \A i \in DOMAIN Layouts[github] : \A c \in Layouts[github][i] : ghost[c] <= rtc.counts[i]
           /\ variant = "BWR" => \A c \in Cells : ghost[c] = 0
           /\ frame # "content" =>
                 /\ \A c \in Cells : ghost[c] = 0
                 /\ \A i \in 1 .. MaxRegions : rtc.counts[i] = 0
<1>1. rtc.first /\ ~rtc.clear /\ ~(rtc.renders + 1 >= RenderCap) /\ ~LayoutFlips(github)
  BY DEF ForcesFull
<1>2. asked.kind \notin Uncounted \union {"sleeping"}
  BY <1>1 DEF CountInv, Begun, ContentKnown, InPortal, Uncounted
<1>3. since = rtc.renders /\ rtc.renders + 1 < RenderCap /\ since \in Nat
  BY <1>1, <1>2, LimitsAssumption DEF CountInv, Counted, CountTypes, BufferInv, Rtc
<1>4. \A i \in 1 .. MaxRegions : rtc.counts[i] \in Nat
  BY DEF CountInv, BufferInv, Rtc
<1>5. \A c \in Cells : ghost[c] \in Nat
  BY DEF CountInv, CountTypes
<1>6. \A i \in DOMAIN Layouts[github] : i \in 1 .. MaxRegions /\ Layouts[github][i] \subseteq Cells
  BY RegionsFit
<1>7. CASE ByRegions
  <2>1. \A i \in 1 .. MaxRegions : rtc.counts[i] <= MaxPartials /\ rtc.counts[i] <= since
    BY <1>7 DEF CountInv, RegionGhosts
  <2>2. rtc.footers = 0 /\ (variant = "BWR" => \A c \in Cells : ghost[c] = 0)
    BY <1>7 DEF CountInv, RegionGhosts
  <2>3. CASE variant = "BW"
    <3>1. github <=> asked.kind = "github"
      BY <1>1, <1>7, <2>3 DEF CountInv, ContentKnown, LayoutFlips, ByRegions, BufferInv, Rtc
    <3>2. \A i \in DOMAIN Layouts[github] : \A c \in Layouts[github][i] : ghost[c] <= rtc.counts[i]
      BY <1>7, <3>1 DEF CountInv, RegionGhosts
    <3> QED
      BY <1>2, <1>3, <1>4, <1>7, <2>1, <2>2, <3>2 DEF ByRegions, Uncounted
  <2>4. CASE variant = "BWR"
    <3>1. \A i \in DOMAIN Layouts[github] : \A c \in Layouts[github][i] : ghost[c] <= rtc.counts[i]
      BY <1>4, <1>6, <2>2, <2>4
    <3> QED
      BY <1>2, <1>3, <1>4, <1>7, <2>1, <2>2, <3>1 DEF ByRegions, Uncounted
  <2> QED
    BY <2>3, <2>4 DEF CountInv, CountTypes, Variants
<1>8. CASE ~ByRegions
  <2>1. rtc.footers = 0
    BY <1>2, <1>8 DEF CountInv, FooterGhosts, Dash, Outages
  <2>2. \A i \in 1 .. MaxRegions : rtc.counts[i] = 0
    BY <1>2, <1>8 DEF CountInv, FooterGhosts
  <2>3. \A c \in Cells : ghost[c] = 0
    BY <1>2, <1>5, <1>8, <2>1 DEF CountInv, FooterGhosts
  <2>4. \A i \in DOMAIN Layouts[github] : \A c \in Layouts[github][i] : ghost[c] <= rtc.counts[i]
    BY <1>6, <2>2, <2>3
  <2> QED
    BY <1>2, <1>3, <1>4, <2>1, <2>2, <2>3, <2>4, LimitsAssumption DEF Uncounted
<1> QED
  BY <1>7, <1>8

LEMMA RenderSameCounts ==
    ASSUME CountInv, BufferInv', NEW image, NEW needRed, NEW github \in BOOLEAN,
           NEW bw \in [Cells -> {"dash"} \X Inks], ~InPortal, ~ForcesFull(github),
           Unchanged(bw, needRed), Skip(Tick(Rendered(github))), since' = since + 1,
           variant' = variant, NEW others, Mark("content", others),
           Asked(IF github THEN "github" ELSE "plain", image)
    PROVE  CountInv'
<1> DEFINE kind == IF github THEN "github" ELSE "plain"
           r == Tick(Rendered(github))
<1>1. /\ rtc' \in Rtc /\ rtc'.renders = rtc.renders + 1 /\ rtc'.counts = rtc.counts
      /\ rtc'.first = rtc.first /\ rtc'.red = rtc.red /\ rtc'.bwValid = rtc.bwValid
      /\ rtc'.content /\ ~rtc'.clear /\ rtc'.footers = rtc.footers
      /\ variant = "BW" => rtc'.layout /\ rtc'.github = github
  BY RenderedKeeps, TickKeeps DEF Skip, CountInv, BufferInv
<1>2. asked'.kind = kind /\ kind \in Dash /\ (kind = "github" <=> github)
  BY DEF Asked, Dash
<1>3. \E c \in FooterCells : buf[c][1] = "dash"
  <2>1. PICK c \in FooterCells : c \in Cells
    BY RegionsFit
  <2>2. buf[c] = bw[c] /\ bw[c] \in {"dash"} \X Inks
    BY <2>1 DEF Unchanged, Differ
  <2> QED
    BY <2>1, <2>2
<1>4. rtc.bwValid /\ (asked.kind \in Dash \/ variant = "BWR")
  BY <1>3 DEF Unchanged, CountInv, Begun, NotDash, CountTypes, Variants
<1>5. /\ asked.kind # "none" /\ since = rtc.renders /\ rtc.renders + 1 < RenderCap
      /\ rtc.footers = 0
      /\ \A i \in 1 .. MaxRegions :
            rtc.counts[i] \in Nat /\ rtc.counts[i] <= MaxPartials /\ rtc.counts[i] <= since
      /\ \A i \in DOMAIN Layouts[github] : \A c \in Layouts[github][i] : ghost[c] <= rtc.counts[i]
      /\ variant = "BWR" => \A c \in Cells : ghost[c] = 0
      /\ frame # "content" =>
            /\ \A c \in Cells : ghost[c] = 0
            /\ \A i \in 1 .. MaxRegions : rtc.counts[i] = 0
  BY <1>4, RenderedBefore
<1>6. ghost' = ghost /\ since \in Nat /\ since' = since + 1
  BY DEF Skip, CountInv, CountTypes
<1>7. CountTypes' /\ Counted'
  BY <1>1, <1>5, <1>6 DEF CountInv, CountTypes, Counted
<1>8. Begun'
  BY <1>1, <1>2, <1>5 DEF CountInv, Begun, Dash
<1>9. MarkKept' /\ NotDash'
  BY <1>2, MarkTakes DEF MarkKept, NotDash, Dash, Outages
<1>10. ContentKnown'
  BY <1>1, <1>2 DEF ContentKnown, Dash
<1>11. RegionGhosts'
  <2>1. \A i \in 1 .. MaxRegions : rtc'.counts[i] <= MaxPartials /\ rtc'.counts[i] <= since'
    BY <1>1, <1>5, <1>6
  <2>2. \A i \in DOMAIN Layouts[github] : \A c \in Layouts[github][i] : ghost'[c] <= rtc'.counts[i]
    BY <1>1, <1>5, <1>6
  <2>3. (variant' = "BWR" => \A c \in Cells : ghost'[c] = 0) /\ rtc'.footers = 0
    BY <1>1, <1>5, <1>6
  <2> HIDE DEF kind, r
  <2> QED
    BY <1>2, <2>1, <2>2, <2>3 DEF RegionGhosts
<1>12. FooterGhosts'
  <2>1. frame' = "content" \/ (frame # "content" /\ frame' = frame)
    BY DEF Mark
  <2>2. frame' # "content" => /\ \A c \in Cells : ghost'[c] = 0
                              /\ \A i \in 1 .. MaxRegions : rtc'.counts[i] = 0
    BY <1>1, <1>5, <1>6, <2>1
  <2>3. ~ByRegions' => frame' # "content"
    BY <1>2 DEF ByRegions
  <2> QED
    BY <1>1, <1>5, <1>6, <2>2, <2>3, LimitsAssumption DEF FooterGhosts
<1> QED
  BY <1>7, <1>8, <1>9, <1>10, <1>11, <1>12 DEF CountInv

LEMMA RenderRegionsCounts ==
    ASSUME CountInv, BufferInv', NEW image, NEW needRed, NEW github \in BOOLEAN, NEW seen \in Seen,
           NEW bw \in [Cells -> {"dash"} \X Inks], ~InPortal, ~ForcesFull(github),
           Eligible(needRed, seen), Planned(bw, github), RegionsDrawn(bw, github, Rendered(github)),
           variant' = variant, NEW others, Mark("content", others),
           Asked(IF github THEN "github" ELSE "plain", image)
    PROVE  CountInv'
<1> DEFINE kind == IF github THEN "github" ELSE "plain"
           changed == Changed(bw, github)
           window == UNION {Layouts[github][i] : i \in changed}
           counts == Staged(github, bw)
           r == [Rendered(github) EXCEPT !.counts = counts, !.renders = rtc.renders + 1]
<1>1. /\ asked'.kind = kind /\ kind \in Dash /\ (kind = "github" <=> github)
      /\ variant = "BW" /\ frame = "content" /\ frame' = "content" /\ rtc.bwValid
  BY DEF Asked, Dash, Eligible, Seen, Mark
<1>2. /\ asked.kind # "none" /\ since = rtc.renders /\ rtc.renders + 1 < RenderCap
      /\ rtc.footers = 0
      /\ \A i \in 1 .. MaxRegions :
            rtc.counts[i] \in Nat /\ rtc.counts[i] <= MaxPartials /\ rtc.counts[i] <= since
      /\ \A i \in DOMAIN Layouts[github] : \A c \in Layouts[github][i] : ghost[c] <= rtc.counts[i]
  BY <1>1, RenderedBefore
<1>3. rtc \in Rtc /\ since \in Nat /\ ghost \in [Cells -> Nat] /\ rtc.renders \in Nat
  BY DEF CountInv, BufferInv, CountTypes, Rtc
<1>4. counts \in [1 .. MaxRegions -> Nat] /\ Partial(bw, window, r)
  BY <1>3, RegionsRefresh
<1>5. /\ r \in Rtc /\ r.counts = counts /\ r.renders = rtc.renders + 1 /\ r.footers = rtc.footers
      /\ r.first = rtc.first /\ r.red = rtc.red /\ r.bwValid = rtc.bwValid
      /\ r.content /\ ~r.clear /\ r.layout /\ r.github = github
  <2>1. PICK a : a = Rendered(github)
    OBVIOUS
  <2>2. /\ a \in Rtc /\ ~a.clear /\ a.content /\ a.layout /\ a.github = github
        /\ a.first = rtc.first /\ a.red = rtc.red /\ a.bwValid = rtc.bwValid
        /\ a.footers = rtc.footers
    BY <1>1, <1>3, <2>1, RenderedKeeps
  <2>3. r = CountsSet(a, counts, rtc.renders + 1) /\ rtc.renders + 1 \in Nat
    BY <1>3, <2>1 DEF CountsSet
  <2> HIDE DEF r, counts
  <2>4. counts \in [1 .. MaxRegions -> Nat]
    BY <1>4
  <2>5. /\ r \in Rtc /\ r.counts = counts /\ r.renders = rtc.renders + 1
        /\ r.first = a.first /\ r.red = a.red /\ r.content = a.content
        /\ r.bwValid = a.bwValid /\ r.clear = a.clear /\ r.footers = a.footers
        /\ r.github = a.github /\ r.layout = a.layout
    BY <2>2, <2>3, <2>4, RegionsKeep
  <2> QED
    BY <2>2, <2>5
<1>6. /\ rtc' = r /\ since' = since + 1
      /\ ghost' = [c \in Cells |-> IF c \in window THEN ghost[c] + 1 ELSE ghost[c]]
  BY <1>4 DEF Partial
<1> HIDE DEF r
<1>7. CountTypes' /\ Counted'
  BY <1>2, <1>3, <1>5, <1>6 DEF CountInv, CountTypes, Counted
<1>8. Begun'
  BY <1>1, <1>2, <1>5, <1>6 DEF CountInv, Begun, Dash
<1>9. MarkKept' /\ NotDash' /\ FooterGhosts'
  BY <1>1 DEF MarkKept, NotDash, FooterGhosts, ByRegions, Dash, Outages
<1>10. ContentKnown'
  BY <1>1, <1>5, <1>6 DEF ContentKnown, Dash
<1>11. \A i \in 1 .. MaxRegions :
          counts[i] = IF i \in changed THEN rtc.counts[i] + 1 ELSE rtc.counts[i]
  BY DEF Staged
<1>12. \A i \in 1 .. MaxRegions : counts[i] <= MaxPartials /\ counts[i] <= since + 1
  <2>1. \A i \in changed : rtc.counts[i] + 1 <= MaxPartials
    BY DEF Planned
  <2> QED
    BY <1>2, <1>3, <1>11, <2>1
<1>13. \A i \in DOMAIN Layouts[github] : \A c \in Layouts[github][i] : ghost'[c] <= counts[i]
  <2> SUFFICES ASSUME NEW i \in DOMAIN Layouts[github], NEW c \in Layouts[github][i]
               PROVE  ghost'[c] <= counts[i]
    OBVIOUS
  <2>1. c \in Cells /\ i \in 1 .. MaxRegions
    BY RegionsFit
  <2>2. ghost[c] <= rtc.counts[i] /\ ghost[c] \in Nat /\ rtc.counts[i] \in Nat
    BY <1>2, <1>3, <2>1
  <2>3. c \in window <=> i \in changed
    BY RegionsAssumption DEF Changed
  <2>4. ghost'[c] = IF i \in changed THEN ghost[c] + 1 ELSE ghost[c]
    BY <1>6, <2>1, <2>3
  <2> QED
    BY <1>11, <2>1, <2>2, <2>4
<1>14. RegionGhosts'
  <2> HIDE DEF kind, counts
  <2> QED
    BY <1>1, <1>2, <1>5, <1>6, <1>12, <1>13 DEF RegionGhosts
<1> QED
  BY <1>7, <1>8, <1>9, <1>10, <1>14 DEF CountInv

LEMMA RenderCounts ==
    ASSUME CountInv, BufferInv', NEW bw \in [Cells -> {"dash"} \X Inks], NEW red \in Reds,
           NEW alert \in BOOLEAN, NEW github \in BOOLEAN, NEW seen \in Seen,
           Render(bw, red, alert, github, seen)
    PROVE  CountInv'
<1> DEFINE image == Image(bw, red)
           needRed == variant = "BWR" /\ alert
           same == ~ForcesFull(github) /\ Unchanged(bw, needRed)
           regions == ~ForcesFull(github) /\ ~same /\ Eligible(needRed, seen) /\ Planned(bw, github)
           others == Unasked(image, needRed, same)
<1>1. /\ Asked(IF github THEN "github" ELSE "plain", image) /\ variant' = variant
      /\ Mark("content", others) /\ needRed \in BOOLEAN /\ ~InPortal
  BY DEF Render
<1>2. \/ same /\ Skip(Tick(Rendered(github))) /\ since' = since + 1
      \/ regions /\ RegionsDrawn(bw, github, Rendered(github))
      \/ \E why : Full(image, needRed, Rendered(github), why)
  BY DEF Render
<1> HIDE DEF image, needRed, others
<1>3. CASE same /\ Skip(Tick(Rendered(github))) /\ since' = since + 1
  BY <1>1, <1>3, RenderSameCounts
<1>4. CASE regions /\ RegionsDrawn(bw, github, Rendered(github))
  BY <1>1, <1>4, RenderRegionsCounts
<1>5. CASE \E why : Full(image, needRed, Rendered(github), why)
  BY <1>1, <1>5, RenderFullCounts, MarkTakes
<1> QED
  BY <1>2, <1>3, <1>4, <1>5

LEMMA CountsStart == ASSUME Init PROVE CountInv
<1>1. /\ asked.kind = "none" /\ rtc = RtcStart /\ variant \in Variants /\ since = 0
      /\ ghost = [c \in Cells |-> 0]
  BY DEF Init
<1>2. CountTypes /\ Begun
  BY <1>1 DEF CountTypes, Begun, RtcStart
<1>3. MarkKept /\ NotDash /\ ContentKnown /\ Counted /\ RegionGhosts /\ FooterGhosts
  BY <1>1 DEF MarkKept, NotDash, ContentKnown, Counted, RegionGhosts, FooterGhosts, ByRegions,
              Dash, Outages, Uncounted
<1> QED
  BY <1>2, <1>3, BuffersStart DEF CountInv

LEMMA CountsStep == ASSUME CountInv, [Next]_vars PROVE CountInv'
<1>1. BufferInv'
  BY BuffersStep DEF CountInv
<1>2. CASE UNCHANGED vars
  BY <1>1, <1>2 DEF vars, CountInv, CountTypes, Begun, MarkKept, NotDash, ContentKnown,
                    Counted, RegionGhosts, FooterGhosts, ByRegions
<1>3. ASSUME NEW bw \in [Cells -> {"dash"} \X Inks], NEW red \in Reds, NEW alert \in BOOLEAN,
             NEW github \in BOOLEAN, NEW seen \in Seen, Render(bw, red, alert, github, seen)
      PROVE  CountInv'
  BY <1>1, <1>3, RenderCounts
<1>4. CASE ShowSleeping
  BY <1>1, <1>4, ShowSleepingCounts
<1>5. ASSUME NEW reason \in Outages, NEW n \in Attempts, NEW seen \in Seen,
             ShowOffline(reason, n, seen)
      PROVE  CountInv'
  BY <1>1, <1>5, ShowOfflineCounts
<1>6. ASSUME NEW kind \in Pages, ShowPage(kind)
      PROVE  CountInv'
  BY <1>1, <1>6, ShowPageCounts
<1>7. ASSUME NEW kind \in Results, ShowResult(kind)
      PROVE  CountInv'
  BY <1>1, <1>7, ShowResultCounts
<1>8. ASSUME NEW powerOn \in BOOLEAN, NEW seen \in Seen, ShowTimeout(powerOn, seen)
      PROVE  CountInv'
  BY <1>1, <1>8, ShowTimeoutCounts
<1>9. CASE Restart
  BY <1>1, <1>9, RestartCounts
<1> QED
  BY <1>2, <1>3, <1>4, <1>5, <1>6, <1>7, <1>8, <1>9, NextRender DEF Next

LEMMA CountsAlways == Spec => []CountInv
<1>1. Init => CountInv
  BY CountsStart
<1>2. CountInv /\ [Next]_vars => CountInv'
  BY CountsStep
<1> QED
  BY <1>1, <1>2, PTL DEF Spec

LEMMA CountsBound == ASSUME CountInv PROVE GhostBounded /\ DailyFull
<1> SUFFICES ASSUME asked.kind \notin Uncounted
             PROVE  since < RenderCap /\ \A c \in Cells : ghost[c] <= MaxPartials
  BY DEF GhostBounded, DailyFull, Uncounted
<1>1. since < RenderCap
  BY DEF CountInv, Counted
<1>2. CASE ByRegions
  <2> SUFFICES ASSUME NEW c \in Cells
               PROVE  ghost[c] <= MaxPartials
    BY <1>1
  <2>1. PICK github \in BOOLEAN : github <=> asked.kind = "github"
    OBVIOUS
  <2>2. PICK i \in DOMAIN Layouts[github] : c \in Layouts[github][i]
    BY RegionsAssumption
  <2>3. i \in 1 .. MaxRegions
    BY RegionsFit
  <2>4. ghost[c] <= rtc.counts[i] /\ rtc.counts[i] <= MaxPartials
    BY <1>2, <2>1, <2>2, <2>3 DEF CountInv, RegionGhosts
  <2>5. ghost[c] \in Nat /\ rtc.counts[i] \in Nat
    BY <2>3 DEF CountInv, CountTypes, BufferInv, Rtc
  <2> QED
    BY <2>4, <2>5, LimitsAssumption
<1>3. CASE ~ByRegions
  BY <1>1, <1>3, LimitsAssumption DEF CountInv, CountTypes, FooterGhosts, BufferInv, Rtc
<1> QED
  BY <1>2, <1>3

----------------------------------------------------------------------------
\* Full refreshes are no more frequent than the limits ask.

Apart ==
    variant = "BW" /\ how' = "full" /\ "mark" \notin slips /\ asked'.kind = asked.kind
            /\ asked.kind \in Outages \union {"plain", "github"}
        => since >= MaxPartials \/ since + 1 >= RenderCap

LEMMA RenderApart ==
    ASSUME CountInv, NEW bw \in [Cells -> {"dash"} \X Inks], NEW red \in Reds, NEW alert \in BOOLEAN,
           NEW github \in BOOLEAN, NEW seen \in Seen, Render(bw, red, alert, github, seen)
    PROVE  Apart
<1> SUFFICES ASSUME variant = "BW", how' = "full", "mark" \notin slips, asked'.kind = asked.kind,
                    since < MaxPartials, since + 1 < RenderCap
             PROVE  FALSE
  BY LimitsAssumption DEF Apart, CountInv, CountTypes
<1> DEFINE needRed == variant = "BWR" /\ alert
           same == ~ForcesFull(github) /\ Unchanged(bw, needRed)
           regions == ~ForcesFull(github) /\ ~same /\ Eligible(needRed, seen) /\ Planned(bw, github)
<1>1. ~same /\ ~regions /\ seen = frame
  BY DEF Render, Skip, RegionsDrawn, Partial, Full, Why
<1>2. asked.kind \in Dash /\ (github <=> asked.kind = "github")
  BY DEF Render, Asked, Dash
<1>3. /\ rtc \in Rtc /\ rtc.first /\ rtc.bwValid /\ ~rtc.red /\ since = rtc.renders
      /\ ~rtc.clear /\ rtc.content /\ (rtc.github <=> github) /\ frame = "content"
  BY <1>2 DEF CountInv, BufferInv, Begun, Counted, ContentKnown, MarkKept, Dash, Uncounted, Results
<1>4. ~ForcesFull(github)
  BY <1>3, LimitsAssumption DEF ForcesFull, LayoutFlips, Rtc
<1>5. Eligible(needRed, seen)
  BY <1>1, <1>3 DEF Eligible
<1>6. Differ(buf, bw) # {}
  BY <1>1, <1>3, <1>4 DEF Unchanged
<1>7. Differ(buf, bw) \subseteq UNION {Layouts[github][i] : i \in Changed(bw, github)}
  BY PlanCovers
<1>8. \A i \in Changed(bw, github) : rtc.counts[i] + 1 <= MaxPartials
  <2>1. Changed(bw, github) \subseteq 1 .. MaxRegions
    BY RegionsFit DEF Changed
  <2>2. \A i \in 1 .. MaxRegions : rtc.counts[i] \in Nat /\ rtc.counts[i] <= since
    BY <1>2, <1>3 DEF CountInv, RegionGhosts, ByRegions, Rtc
  <2> QED
    BY <2>1, <2>2, LimitsAssumption DEF CountInv, CountTypes
<1>9. Planned(bw, github)
  <2>1. Changed(bw, github) # {} /\ Changed(bw, github) \subseteq DOMAIN Layouts[github]
    BY <1>6, <1>7 DEF Changed
  <2> QED
    BY <1>7, <1>8, <2>1 DEF Planned
<1> QED
  BY <1>1, <1>4, <1>5, <1>9

LEMMA ShowOfflineApart ==
    ASSUME CountInv, NEW reason \in Outages, NEW n \in Attempts, NEW seen \in Seen,
           ShowOffline(reason, n, seen)
    PROVE  Apart
<1> SUFFICES ASSUME variant = "BW", how' = "full", "mark" \notin slips, asked'.kind = asked.kind,
                    since < MaxPartials, since + 1 < RenderCap
             PROVE  FALSE
  BY LimitsAssumption DEF Apart, CountInv, CountTypes
<1>1. asked.kind = reason /\ ~InPortal
  BY DEF ShowOffline, Asked
<1>2. frame = reason /\ rtc.first /\ rtc.bwValid
  BY <1>1 DEF CountInv, Begun, MarkKept, Outages
<1>3. CASE seen # frame
  BY <1>2, <1>3 DEF ShowOffline, SameOutage, Why, Full
<1>4. CASE seen = frame
  <2>1. SameOutage(reason, seen)
    BY <1>2, <1>4 DEF SameOutage
  <2>2. FooterAllowed
    BY <1>1, <2>1, SameOutageGhosts, LimitsAssumption
    DEF FooterAllowed, CountInv, CountTypes, BufferInv, Rtc
  <2> QED
    BY <2>1, <2>2 DEF ShowOffline, Skip, Partial, Full
<1> QED
  BY <1>3, <1>4

\* On a BW panel that repeats the same kind of image, whose mark flash took and
\* gave back, a full refresh that no failure caused only comes when the partial
\* ones or the day are used up.
THEOREM FullsAreApart == Spec => FullsApart
<1>1. CountInv /\ [Next]_vars => [Apart]_vars
  <2> SUFFICES ASSUME CountInv, Next
               PROVE  Apart
    OBVIOUS
  <2>1. ASSUME NEW bw \in [Cells -> {"dash"} \X Inks], NEW red \in Reds, NEW alert \in BOOLEAN,
               NEW github \in BOOLEAN, NEW seen \in Seen, Render(bw, red, alert, github, seen)
        PROVE  Apart
    BY <2>1, RenderApart
  <2>2. ASSUME NEW reason \in Outages, NEW n \in Attempts, NEW seen \in Seen,
               ShowOffline(reason, n, seen)
        PROVE  Apart
    BY <2>2, ShowOfflineApart
  <2>3. CASE \/ ShowSleeping
             \/ \E kind \in Pages : ShowPage(kind)
             \/ \E kind \in Results : ShowResult(kind)
             \/ \E powerOn \in BOOLEAN, seen \in Seen : ShowTimeout(powerOn, seen)
             \/ Restart
    <3>1. asked'.kind \in Pages \union Results \union {"sleeping", "timeout", "none"}
      <4>1. CASE ShowSleeping
        BY <4>1 DEF ShowSleeping, Asked
      <4>2. ASSUME NEW kind \in Pages, ShowPage(kind)
            PROVE  asked'.kind \in Pages
        BY <4>2 DEF ShowPage, Asked
      <4>3. ASSUME NEW kind \in Results, ShowResult(kind)
            PROVE  asked'.kind \in Results
        BY <4>3 DEF ShowResult, Asked
      <4>4. ASSUME NEW powerOn \in BOOLEAN, NEW seen \in Seen, ShowTimeout(powerOn, seen)
            PROVE  asked'.kind = "timeout"
        BY <4>4 DEF ShowTimeout, Asked
      <4>5. CASE Restart
        BY <4>5 DEF Restart
      <4> QED
        BY <2>3, <4>1, <4>2, <4>3, <4>4, <4>5
    <3> QED
      BY <3>1 DEF Apart, Pages, Results, Outages
  <2> QED
    BY <2>1, <2>2, <2>3, NextRender DEF Next
<1> QED
  BY <1>1, CountsAlways, PTL DEF Spec, FullsApart, Apart
----------------------------------------------------------------------------
(***************************************************************************)
(* The panel shows what was asked of it.  A poster starts from what the    *)
(* mark says is on the panel: without a slip that is the poster itself.  A *)
(* dashboard that is left alone has an empty red plane beneath it, unless  *)
(* an amount of money was drawn.                                           *)
(***************************************************************************)
RedShown ==
    asked.kind # "none" =>
        /\ glass.red # 0 => rtc.red \/ "money" \in slips \/ rtc.clear
        /\ variant = "BW" => glass.red = 0
DataRed == variant = "BW" => data.red = 0

FrameOf(kind) ==
    IF kind \in Dash \union {"sleeping"} THEN "content"
    ELSE IF kind \in Results THEN "qr" ELSE Shows(kind)
FrameShown == asked.kind # "none" /\ slips \intersect {"mark", "quiet"} = {} => frame = FrameOf(asked.kind)
PosterShown == asked.kind \in Outages => \E n : asked.image = Poster(asked.kind, n)

ShownInv == CountInv /\ RedShown /\ DataRed /\ FrameShown /\ PosterShown /\ ShownAsAsked

LEMMA MarkShows ==
    ASSUME NEW kind, NEW others, Mark(FrameOf(kind), others), asked'.kind = kind
    PROVE  FrameShown'
  BY DEF Mark, FrameShown

LEMMA FullShows ==
    ASSUME NEW image, NEW needRed \in BOOLEAN, NEW r \in Rtc, NEW why, Full(image, needRed, r, why),
           NEW kind, Asked(kind, image), variant' = variant, variant = "BW" => image.red = 0,
           image.red # 0 => (variant = "BWR" /\ needRed) \/ "money" \in slips' \/ r.clear
    PROVE  RedShown' /\ ShownAsAsked'
<1>1. glass' = image /\ asked'.image = image
  BY FullRefresh DEF AfterFull, Asked
<1>2. image.red # 0 => rtc'.red \/ "money" \in slips' \/ rtc'.clear
  BY FullRefresh DEF AfterFull
<1>3. Differ(glass'.bw, asked'.image.bw) = {}
  BY <1>1 DEF Differ
<1> QED
  BY <1>1, <1>2, <1>3 DEF RedShown, ShownAsAsked

LEMMA PartialShows ==
    ASSUME ShownInv, variant = "BW", variant' = variant, rtc.bwValid, asked.kind # "none",
           NEW bw, Drawn(bw), NEW window, Differ(buf, bw) \subseteq window,
           NEW r, Partial(bw, window, r), NEW image, image.red = 0, NEW kind, Asked(kind, image),
           (\A c \in Cells : image.bw[c] = bw[c]) \/ (kind \in Outages /\ slips' # {})
    PROVE  RedShown' /\ ShownAsAsked'
<1>1. glass' = [bw |-> bw, red |-> glass.red]
  BY DrivenShows DEF Partial, ShownInv, CountInv, BufferInv, BufferTrue, Drawn
<1>2. glass.red = 0
  BY DEF ShownInv, RedShown
<1>3. glass'.bw = bw /\ glass'.red = 0 /\ asked'.image = image /\ asked'.kind = kind
  BY <1>1, <1>2 DEF Asked
<1>4. RedShown'
  BY <1>3 DEF RedShown
<1>5. CASE \A c \in Cells : image.bw[c] = bw[c]
  <2>1. Differ(glass'.bw, asked'.image.bw) = {}
    BY <1>3, <1>5 DEF Differ
  <2> QED
    BY <1>3, <1>4, <2>1 DEF ShownAsAsked
<1>6. CASE kind \in Outages /\ slips' # {}
  BY <1>3, <1>4, <1>6 DEF ShownAsAsked
<1> QED
  BY <1>5, <1>6

LEMMA ImageReds ==
    /\ \A bw, red : Image(bw, red).bw = bw /\ (variant = "BW" => Image(bw, red).red = 0)
    /\ \A bw, red : variant # "BW" => Image(bw, red).red = red
    /\ \A bw : Image(bw, 0).red = 0
  BY DEF Image

LEMMA RenderShows ==
    ASSUME ShownInv, CountInv', NEW bw \in [Cells -> {"dash"} \X Inks], NEW red \in Reds,
           NEW alert \in BOOLEAN, NEW github \in BOOLEAN, NEW seen \in Seen,
           Render(bw, red, alert, github, seen)
    PROVE  ShownInv'
<1> DEFINE image == Image(bw, red)
           needRed == variant = "BWR" /\ alert
           kind == IF github THEN "github" ELSE "plain"
           same == ~ForcesFull(github) /\ Unchanged(bw, needRed)
           regions == ~ForcesFull(github) /\ ~same /\ Eligible(needRed, seen) /\ Planned(bw, github)
           r == Rendered(github)
<1>1. /\ Asked(kind, image) /\ variant' = variant /\ data'.red = image.red /\ needRed \in BOOLEAN
      /\ kind \in Dash /\ kind \notin Outages \union {"none"} /\ FrameOf(kind) = "content"
      /\ Mark("content", Unasked(image, needRed, same))
  BY DEF Render, Outages, FrameOf, Dash
<1>2. asked'.kind = kind /\ asked'.image = image
  BY <1>1 DEF Asked
<1>3. FrameShown' /\ PosterShown'
  BY <1>1, <1>2, MarkShows DEF PosterShown
<1>4. image.bw = bw /\ (variant = "BW" => image.red = 0)
  BY ImageReds
<1>5. DataRed'
  BY <1>1, <1>4 DEF DataRed
<1>6. r \in Rtc /\ rtc \in Rtc
  BY RenderedKeeps DEF ShownInv, CountInv, BufferInv
<1>7. /\ image.red # 0 /\ ~needRed => "money" \in slips'
      /\ same /\ "money" \in slips => "money" \in slips'
  BY <1>1 DEF Mark, Unasked
<1>8. \/ same /\ Skip(Tick(r))
      \/ regions /\ RegionsDrawn(bw, github, r)
      \/ \E why : Full(image, needRed, r, why)
  BY DEF Render
<1>9. CASE same /\ Skip(Tick(r))
  <2>1. /\ rtc.bwValid /\ ~needRed /\ ~rtc.red /\ ~rtc.clear /\ Differ(buf, bw) = {}
        /\ glass' = glass /\ how' = "none"
    BY <1>9 DEF Unchanged, ForcesFull, Skip
  <2>2. asked.kind # "none"
    BY <2>1 DEF ShownInv, CountInv, Begun
  <2>3. buf = glass.bw
    BY <2>1 DEF ShownInv, CountInv, BufferInv, BufferTrue
  <2>4. Differ(glass'.bw, asked'.image.bw) = {}
    BY <1>2, <1>4, <2>1, <2>3 DEF Differ
  <2>5. glass.red # 0 => "money" \in slips'
    BY <1>7, <1>9, <2>1, <2>2 DEF ShownInv, RedShown
  <2>6. RedShown'
    BY <1>1, <2>1, <2>2, <2>5 DEF ShownInv, RedShown
  <2>7. glass'.red = asked'.image.red \/ "money" \in slips'
    BY <1>2, <1>7, <2>1, <2>5
  <2>8. ShownAsAsked'
    BY <1>1, <1>2, <2>1, <2>4, <2>7 DEF ShownAsAsked, Dash
  <2> QED
    BY <1>3, <1>5, <2>6, <2>8 DEF ShownInv
<1>10. CASE regions /\ RegionsDrawn(bw, github, r)
  <2>1. rtc.bwValid /\ variant = "BW"
    BY <1>10 DEF Eligible
  <2>2. asked.kind # "none"
    BY <2>1 DEF ShownInv, CountInv, Begun
  <2>3. PICK q : Partial(bw, UNION {Layouts[github][i] : i \in Changed(bw, github)}, q)
    BY <1>6, <1>10, RegionsRefresh
  <2>4. Differ(buf, bw) \subseteq UNION {Layouts[github][i] : i \in Changed(bw, github)}
    BY PlanCovers
  <2>5. Drawn(bw)
    BY DEF Drawn
  <2> HIDE DEF image, kind
  <2>6. RedShown' /\ ShownAsAsked'
    BY <1>1, <1>4, <2>1, <2>2, <2>3, <2>4, <2>5, PartialShows
  <2> QED
    BY <1>3, <1>5, <2>6 DEF ShownInv
<1>11. CASE \E why : Full(image, needRed, r, why)
  <2>1. image.red # 0 => (variant = "BWR" /\ needRed) \/ "money" \in slips' \/ r.clear
    BY <1>7
  <2> HIDE DEF image, kind, r, needRed
  <2>2. RedShown' /\ ShownAsAsked'
    BY <1>1, <1>4, <1>6, <1>11, <2>1, FullShows
  <2> QED
    BY <1>3, <1>5, <2>2 DEF ShownInv
<1> QED
  BY <1>8, <1>9, <1>10, <1>11

\* A page or a report that is drawn in full.
LEMMA PageShows ==
    ASSUME ShownInv, CountInv', FrameShown', variant' = variant, data' = data,
           NEW image, NEW needRed \in BOOLEAN, NEW r \in Rtc, NEW why, Full(image, needRed, r, why),
           NEW kind, Asked(kind, image), variant = "BW" => image.red = 0,
           image.red # 0 => (variant = "BWR" /\ needRed) \/ r.clear, kind \notin Outages
    PROVE  ShownInv'
<1>1. RedShown' /\ ShownAsAsked'
  BY FullShows
<1>2. DataRed' /\ PosterShown'
  BY DEF ShownInv, DataRed, PosterShown, Asked
<1> QED
  BY <1>1, <1>2 DEF ShownInv

LEMMA ShowPageShows ==
    ASSUME ShownInv, CountInv', NEW kind \in Pages, ShowPage(kind)
    PROVE  ShownInv'
<1> DEFINE image == Image(Plain(kind), IF kind = "ota" THEN 1 ELSE 0)
           needRed == kind \in {"ota", "confirm"}
<1>1. /\ Full(image, needRed, rtc, "full") /\ Asked(kind, image) /\ asked'.kind = kind
      /\ variant' = variant /\ data' = data /\ Mark(Shows(kind), {})
  BY DEF ShowPage, Asked
<1>2. rtc \in Rtc /\ needRed \in BOOLEAN
  BY DEF ShownInv, CountInv, BufferInv
<1>3. variant = "BW" => image.red = 0
  BY ImageReds
<1>4. image.red # 0 => variant = "BWR" /\ needRed
  BY ImageReds DEF ShownInv, CountInv, CountTypes, Variants
<1>5. kind \notin Outages /\ FrameOf(kind) = Shows(kind)
  BY DEF Pages, Outages, FrameOf, Dash, Results
<1>6. FrameShown'
  BY <1>1, <1>5, MarkShows
<1> HIDE DEF image, needRed
<1> QED
  BY <1>1, <1>2, <1>3, <1>4, <1>5, <1>6, PageShows

LEMMA ShowSleepingShows ==
    ASSUME ShownInv, CountInv', ShowSleeping
    PROVE  ShownInv'
<1> DEFINE image == [bw |-> Sleeping(data.bw), red |-> data.red]
           r == [rtc EXCEPT !.clear = TRUE]
<1>1. /\ Full(image, data.needRed, r, "full") /\ Asked("sleeping", image)
      /\ variant' = variant /\ data' = data
  BY DEF ShowSleeping
<1>2. r \in Rtc /\ r.clear /\ data.needRed \in BOOLEAN
  BY DEF ShownInv, CountInv, BufferInv, Rtc
<1>3. variant = "BW" => image.red = 0
  BY DEF ShownInv, DataRed
<1>4. FrameShown'
  <2>1. asked'.kind = "sleeping" /\ FrameOf("sleeping") = "content" /\ frame' = frame
    BY DEF ShowSleeping, Asked, FrameOf
  <2>2. frame # "content" => "quiet" \in slips'
    BY DEF ShowSleeping
  <2> QED
    BY <2>1, <2>2 DEF FrameShown
<1> HIDE DEF image, r
<1> QED
  BY <1>1, <1>2, <1>3, <1>4, PageShows DEF Outages

LEMMA ShowTimeoutShows ==
    ASSUME ShownInv, CountInv', NEW powerOn \in BOOLEAN, NEW seen \in Seen, ShowTimeout(powerOn, seen)
    PROVE  ShownInv'
<1> DEFINE image == Image(Plain("timeout"), 0)
<1>1. /\ Asked("timeout", image) /\ asked'.kind = "timeout" /\ variant' = variant /\ data' = data
      /\ asked.kind = "qr"
  BY DEF ShowTimeout, Asked
<1>2. image.red = 0
  BY ImageReds
<1>3. FrameOf("timeout") = "timeout" /\ FrameOf("qr") = "qr" /\ "timeout" \notin Outages
  BY DEF FrameOf, Shows, Dash, Results, Outages
<1>4. CASE seen = "timeout" /\ ~powerOn
  <2>1. /\ glass' = glass /\ rtc' = rtc /\ slips' = slips /\ frame' = frame /\ frame = "timeout"
    BY <1>4 DEF ShowTimeout, Skip, Seen
  <2>2. slips # {}
    BY <1>1, <1>3, <2>1 DEF ShownInv, FrameShown
  <2>3. RedShown' /\ ShownAsAsked' /\ FrameShown'
    BY <1>1, <1>3, <2>1, <2>2 DEF ShownInv, RedShown, ShownAsAsked, FrameShown
  <2>4. DataRed' /\ PosterShown'
    BY <1>1, <1>3 DEF ShownInv, DataRed, PosterShown
  <2> QED
    BY <2>3, <2>4 DEF ShownInv
<1>5. CASE ~(seen = "timeout" /\ ~powerOn)
  <2>1. Full(image, FALSE, rtc, "full") /\ rtc \in Rtc /\ Mark("timeout", {})
    BY <1>5 DEF ShowTimeout, ShownInv, CountInv, BufferInv
  <2>2. FrameShown'
    BY <1>1, <1>3, <2>1, MarkShows
  <2> HIDE DEF image
  <2> QED
    BY <1>1, <1>2, <1>3, <2>1, <2>2, PageShows
<1> QED
  BY <1>4, <1>5

LEMMA ShowResultShows ==
    ASSUME ShownInv, CountInv', NEW kind \in Results, ShowResult(kind)
    PROVE  ShownInv'
<1> DEFINE image == Image(Plain(kind), 0)
<1>1. /\ Asked(kind, image) /\ asked'.kind = kind /\ variant' = variant /\ data' = data
      /\ kind \notin Outages /\ asked.kind # "none" /\ rtc \in Rtc
      /\ Mark("qr", {}) /\ FrameOf(kind) = "qr"
  BY DEF ShowResult, Asked, Results, Outages, FrameOf, Dash, ShownInv, CountInv, BufferInv
<1>2. image.red = 0 /\ image.bw = Plain(kind) /\ Drawn(Plain(kind))
  BY ImageReds, ImagesDrawn
<1>3. FrameShown'
  BY <1>1, MarkShows
<1>4. CASE \E why : Full(image, FALSE, rtc, why)
  <2> HIDE DEF image
  <2> QED
    BY <1>1, <1>2, <1>3, <1>4, PageShows
<1>5. CASE variant = "BW" /\ rtc.bwValid /\ Partial(image.bw, Cells, rtc)
  <2>1. Differ(buf, Plain(kind)) \subseteq Cells
    BY DEF Differ
  <2> HIDE DEF image
  <2>2. RedShown' /\ ShownAsAsked'
    BY <1>1, <1>2, <1>5, <2>1, PartialShows
  <2>3. DataRed' /\ PosterShown'
    BY <1>1 DEF ShownInv, DataRed, PosterShown
  <2> QED
    BY <1>3, <2>2, <2>3 DEF ShownInv
<1> QED
  BY <1>4, <1>5 DEF ShowResult

LEMMA ShowOfflineShows ==
    ASSUME ShownInv, CountInv', NEW reason \in Outages, NEW n \in Attempts, NEW seen \in Seen,
           ShowOffline(reason, n, seen)
    PROVE  ShownInv'
<1> DEFINE counted == WithAttempt(buf, n)
           poster == Poster(reason, n)
           r == [rtc EXCEPT !.footers = @ + 1, !.renders = @ + 1]
           same == SameOutage(reason, seen)
<1>1. /\ Asked(reason, poster) /\ variant' = variant /\ data' = data /\ rtc \in Rtc
      /\ reason # "none" /\ FrameOf(reason) = reason /\ variant \in Variants
  BY DEF ShowOffline, ShownInv, CountInv, BufferInv, CountTypes, Outages, FrameOf, Shows, Dash, Results
<1>2. asked'.kind = reason /\ asked'.image = poster
  BY <1>1 DEF Asked
<1>3. PosterShown'
  BY <1>1, <1>2 DEF PosterShown, Poster, Image
<1>4. DataRed'
  BY <1>1 DEF ShownInv, DataRed
<1>5. /\ poster.bw = WithAttempt(Plain(reason), n) /\ Drawn(counted)
      /\ variant = "BW" => poster.red = 0
      /\ variant = "BWR" => poster.red = 1
  BY ImageReds, ImagesDrawn DEF Poster
<1>6. same => frame = reason /\ rtc.bwValid /\ asked.kind # "none" /\ buf = glass.bw
  BY DEF SameOutage, Seen, Outages, ShownInv, CountInv, Begun, BufferInv, BufferTrue
<1>7. FrameShown'
  <2>1. CASE \E others : Mark(reason, others)
    BY <1>1, <1>2, <2>1, MarkShows
  <2>2. CASE same /\ UNCHANGED <<frame, slips>>
    BY <1>1, <1>2, <1>6, <2>2 DEF FrameShown
  <2> QED
    BY <2>1, <2>2 DEF ShowOffline
\* Without a slip the poster is what the panel shows.
<1>8. same /\ slips = {} =>
          /\ \A c \in Cells \ FooterCells : buf[c] = Plain(reason)[c]
          /\ glass.red = poster.red
  <2> SUFFICES ASSUME same, slips = {}
               PROVE  /\ \A c \in Cells \ FooterCells : buf[c] = Plain(reason)[c]
                      /\ glass.red = poster.red
    OBVIOUS
  <2>1. FrameOf(asked.kind) = reason
    BY <1>6 DEF ShownInv, FrameShown
  <2>2. asked.kind = reason
    BY <2>1 DEF FrameOf, Shows, Outages
  <2>3. PICK m : asked.image = Poster(reason, m)
    BY <2>2 DEF ShownInv, PosterShown
  <2>4. asked.image.bw = WithAttempt(Plain(reason), m) /\ asked.image.red = poster.red
    BY <2>3, ImageReds DEF Poster, Image
  <2>5. glass.red = asked.image.red /\ Differ(glass.bw, asked.image.bw) \subseteq FooterCells
    BY <1>1, <2>2 DEF ShownInv, ShownAsAsked, Outages
  <2>6. \A c \in Cells \ FooterCells : buf[c] = Plain(reason)[c]
    BY <1>6, <2>4, <2>5 DEF Differ, WithAttempt
  <2> QED
    BY <2>4, <2>5, <2>6
<1>9. same /\ slips = {} => \A c \in Cells : counted[c] = poster.bw[c]
  BY <1>5, <1>8 DEF WithAttempt
<1>10. CASE ~same /\ \E why : Full(poster, TRUE, rtc, why)
  <2>1. poster.red # 0 => variant = "BWR"
    BY <1>1, <1>5 DEF Variants
  <2> HIDE DEF poster
  <2>2. RedShown' /\ ShownAsAsked'
    BY <1>1, <1>5, <1>10, <2>1, FullShows
  <2> QED
    BY <1>3, <1>4, <1>7, <2>2 DEF ShownInv
<1>11. CASE same /\ (counted = buf \/ variant = "BWR") /\ Skip(rtc) /\ slips' = slips
  <2> HIDE DEF poster, counted, same
  <2>1. glass' = glass /\ rtc' = rtc
    BY <1>11 DEF Skip
  <2>2. RedShown'
    BY <1>1, <1>6, <1>11, <2>1 DEF ShownInv, RedShown
  <2>3. slips = {} => Differ(glass'.bw, asked'.image.bw) \subseteq IF variant = "BWR" THEN FooterCells ELSE {}
    <3>1. CASE counted = buf
      BY <1>2, <1>6, <1>9, <1>11, <2>1, <3>1 DEF Differ
    <3>2. CASE variant = "BWR"
      BY <1>2, <1>5, <1>6, <1>8, <1>11, <2>1, <3>2 DEF Differ, WithAttempt
    <3> QED
      BY <1>11, <3>1, <3>2
  <2>4. ShownAsAsked'
    BY <1>1, <1>2, <1>8, <1>11, <2>1, <2>3 DEF ShownAsAsked
  <2> QED
    BY <1>3, <1>4, <1>7, <2>2, <2>4 DEF ShownInv
<1>12. CASE same /\ variant = "BW" /\ Partial(counted, FooterCells, r) /\ slips' = slips
  <2>1. Differ(buf, counted) \subseteq FooterCells
    BY DEF Differ, WithAttempt
  <2> HIDE DEF poster, counted, r, same
  <2>2. RedShown' /\ ShownAsAsked'
    BY <1>1, <1>5, <1>6, <1>9, <1>12, <2>1, PartialShows
  <2> QED
    BY <1>3, <1>4, <1>7, <2>2 DEF ShownInv
<1>13. CASE /\ same /\ variant = "BW" /\ Mark(reason, slips)
            /\ \E why : Full(Image(counted, 0), TRUE, rtc, why)
  <2>1. glass' = Image(counted, 0)
    BY <1>13 DEF Full
  <2>2. glass'.bw = counted /\ glass'.red = 0
    BY <2>1, ImageReds
  <2>3. slips # {} => slips' # {}
    BY <1>13 DEF Mark
  <2> HIDE DEF poster, counted
  <2>4. slips = {} => Differ(glass'.bw, asked'.image.bw) = {}
    BY <1>2, <1>9, <1>13, <2>2 DEF Differ
  <2>5. RedShown' /\ ShownAsAsked'
    BY <1>2, <1>5, <1>13, <2>2, <2>3, <2>4 DEF RedShown, ShownAsAsked
  <2> QED
    BY <1>3, <1>4, <1>7, <2>5 DEF ShownInv
<1> QED
  BY <1>1, <1>10, <1>11, <1>12, <1>13 DEF ShowOffline, Variants

LEMMA ShownStart == ASSUME Init PROVE ShownInv
<1>1. asked.kind = "none" /\ data.red = 0
  BY DEF Init, NoData
<1> QED
  BY <1>1, CountsStart DEF ShownInv, RedShown, DataRed, FrameShown, PosterShown, ShownAsAsked, Outages

LEMMA ShownStep == ASSUME ShownInv, [Next]_vars PROVE ShownInv'
<1>1. CountInv'
  BY CountsStep DEF ShownInv
<1>2. CASE UNCHANGED vars
  BY <1>1, <1>2 DEF vars, ShownInv, RedShown, DataRed, FrameShown, PosterShown, ShownAsAsked,
                    Differ, Poster, Image
<1>3. ASSUME NEW bw \in [Cells -> {"dash"} \X Inks], NEW red \in Reds, NEW alert \in BOOLEAN,
             NEW github \in BOOLEAN, NEW seen \in Seen, Render(bw, red, alert, github, seen)
      PROVE  ShownInv'
  BY <1>1, <1>3, RenderShows
<1>4. CASE ShowSleeping
  BY <1>1, <1>4, ShowSleepingShows
<1>5. ASSUME NEW reason \in Outages, NEW n \in Attempts, NEW seen \in Seen,
             ShowOffline(reason, n, seen)
      PROVE  ShownInv'
  BY <1>1, <1>5, ShowOfflineShows
<1>6. ASSUME NEW kind \in Pages, ShowPage(kind)
      PROVE  ShownInv'
  BY <1>1, <1>6, ShowPageShows
<1>7. ASSUME NEW kind \in Results, ShowResult(kind)
      PROVE  ShownInv'
  BY <1>1, <1>7, ShowResultShows
<1>8. ASSUME NEW powerOn \in BOOLEAN, NEW seen \in Seen, ShowTimeout(powerOn, seen)
      PROVE  ShownInv'
  BY <1>1, <1>8, ShowTimeoutShows
<1>9. CASE Restart
  <2>1. asked'.kind = "none" /\ data'.red = 0
    BY <1>9 DEF Restart, NoData
  <2> QED
    BY <1>1, <2>1 DEF ShownInv, RedShown, DataRed, FrameShown, PosterShown, ShownAsAsked, Outages
<1> QED
  BY <1>2, <1>3, <1>4, <1>5, <1>6, <1>7, <1>8, <1>9, NextRender DEF Next

\* Whatever the calls and their order, partial refreshes and refreshes left out
\* included, the panel shows what the last call was asked to show, but for the
\* poster after a mark that is not the frame's and for an amount of money.
THEOREM PanelShowsWhatWasAsked == Spec => []ShownAsAsked
<1>1. Init => ShownInv
  BY ShownStart
<1>2. ShownInv /\ [Next]_vars => ShownInv'
  BY ShownStep
<1>3. ShownInv => ShownAsAsked
  BY DEF ShownInv
<1> QED
  BY <1>1, <1>2, <1>3, PTL DEF Spec
----------------------------------------------------------------------------
\* Types, and the counters within their limits.

Dashboards == [Cells -> {"dash"} \X Inks]
Kinds == Pages \union Results \union Outages \union {"sleeping", "timeout", "torn"}

Limits ==
    /\ rtc.counts \in [1 .. MaxRegions -> 0 .. MaxPartials] /\ rtc.footers \in 0 .. MaxPartials
    /\ rtc.renders \in 0 .. RenderCap - 1
Shades ==
    /\ glass.bw \in Drawings /\ glass.red \in Reds \union {0, 1} /\ buf \in Drawings
    /\ data.bw \in Dashboards /\ data.red \in Reds \union {0, 1}
Marked == variant \in Variants /\ frame \in Pages \union Outages \union {"none", "content", "timeout"}

TypeInv == BufferInv /\ Limits /\ Shades /\ Marked

LEMMA ImagesTyped ==
    /\ Dashboards \subseteq Drawings
    /\ \A kind \in Kinds : Plain(kind) \in Drawings
    /\ Plain("dash") \in Dashboards
    /\ \A bw \in Drawings, n \in Attempts : WithAttempt(bw, n) \in Drawings
    /\ \A bw \in Dashboards : Sleeping(bw) \in Drawings
<1>1. Dashboards \subseteq Drawings
  BY DEF Dashboards, Drawings
<1>2. \A kind \in Kinds : Plain(kind) \in Drawings
  BY DEF Plain, Kinds, Drawings
<1>3. Plain("dash") \in Dashboards
  BY LimitsAssumption DEF Plain, Dashboards
<1>4. \A bw \in Drawings, n \in Attempts : WithAttempt(bw, n) \in Drawings
  BY DEF WithAttempt, Drawings
<1>5. ASSUME NEW bw \in Dashboards
      PROVE  Sleeping(bw) \in Drawings
  <2>1. \A c \in Cells : bw[c] \in {"dash"} \X Inks /\ bw[c][2] \in Inks
    BY DEF Dashboards
  <2> QED
    BY <2>1 DEF Sleeping, Drawings
<1> QED
  BY <1>1, <1>2, <1>3, <1>4, <1>5

LEMMA FullTyped ==
    ASSUME NEW image, image.bw \in Drawings, image.red \in Reds \union {0, 1},
           NEW needRed, NEW r, NEW why, Full(image, needRed, r, why), UNCHANGED data, Shades
    PROVE  Limits' /\ Shades'
<1>1. NoCounts \in [1 .. MaxRegions -> 0 .. MaxPartials] /\ 0 \in 0 .. MaxPartials /\ 0 \in 0 .. RenderCap - 1
  BY LimitsAssumption DEF NoCounts
<1>2. rtc'.counts = NoCounts /\ rtc'.footers = 0 /\ rtc'.renders = 0 /\ glass' = image /\ buf' = image.bw
  BY DEF Full
<1> QED
  BY <1>1, <1>2 DEF Limits, Shades

LEMMA PartialTyped ==
    ASSUME BufferInv, Shades, NEW bw \in Drawings, NEW window, NEW r, Partial(bw, window, r)
    PROVE  glass'.bw \in Drawings /\ glass'.red \in Reds \union {0, 1} /\ buf' \in Drawings
<1>1. glass'.red = glass.red
           /\ glass'.bw = [c \in Cells |-> IF c \in window /\ buf[c] # bw[c] THEN bw[c] ELSE glass.bw[c]]
  BY DEF Partial, Driven, BufferInv, Framed
<1>2. glass'.bw \in Drawings
  BY <1>1 DEF Shades, Drawings
<1> QED
  BY <1>1, <1>2 DEF Partial, Buffer, Shades

LEMMA RenderTyped ==
    ASSUME TypeInv, BufferInv', NEW bw \in [Cells -> {"dash"} \X Inks], NEW red \in Reds,
           NEW alert \in BOOLEAN, NEW github \in BOOLEAN, NEW seen \in Seen,
           Render(bw, red, alert, github, seen)
    PROVE  TypeInv'
<1> DEFINE image == Image(bw, red)
           r == Rendered(github)
<1>1. image.bw = bw /\ image.red \in Reds \union {0, 1} /\ bw \in Dashboards /\ bw \in Drawings
  BY ImagesTyped DEF Image, Dashboards
<1>2. /\ variant' = variant /\ data'.bw = bw /\ data'.red = image.red /\ frame' \in {"content", frame}
      /\ \/ ~ForcesFull(github) /\ Skip(Tick(r))
         \/ ~ForcesFull(github) /\ Planned(bw, github) /\ RegionsDrawn(bw, github, r)
         \/ \E needRed, why : Full(image, needRed, r, why)
  BY DEF Render, Mark
<1>3. Marked' /\ data'.bw \in Dashboards /\ data'.red \in Reds \union {0, 1}
  BY <1>1, <1>2 DEF TypeInv, Marked
<1>4. /\ rtc \in Rtc /\ r \in Rtc /\ r.counts = rtc.counts /\ r.footers = rtc.footers
      /\ r.renders = rtc.renders
  BY RenderedKeeps DEF TypeInv, BufferInv
<1>5. ~ForcesFull(github) => rtc.renders + 1 \in 0 .. RenderCap - 1
  BY <1>4, LimitsAssumption DEF ForcesFull, Rtc
<1> HIDE DEF image
<1>6. CASE ~ForcesFull(github) /\ Skip(Tick(r))
  <2> HIDE DEF r
  <2>1. Limits'
    BY <1>4, <1>5, <1>6, TickKeeps DEF Skip, TypeInv, Limits
  <2>2. Shades'
    BY <1>3, <1>6 DEF Skip, TypeInv, Shades
  <2> QED
    BY <1>3, <2>1, <2>2 DEF TypeInv
<1>7. CASE ~ForcesFull(github) /\ Planned(bw, github) /\ RegionsDrawn(bw, github, r)
  <2> DEFINE counts == Staged(github, bw)
             window == UNION {Layouts[github][i] : i \in Changed(bw, github)}
             q == [Rendered(github) EXCEPT !.counts = counts, !.renders = rtc.renders + 1]
  <2>1. counts \in [1 .. MaxRegions -> Nat] /\ Partial(bw, window, q)
    BY <1>4, <1>7, RegionsRefresh
  <2>2. counts \in [1 .. MaxRegions -> 0 .. MaxPartials]
    <3>1. \A i \in Changed(bw, github) : rtc.counts[i] + 1 <= MaxPartials
      BY <1>7 DEF Planned
    <3>2. \A i \in 1 .. MaxRegions : counts[i] \in 0 .. MaxPartials
      BY <1>4, <3>1, LimitsAssumption DEF TypeInv, Limits, Staged, Rtc
    <3> QED
      BY <2>1, <3>2
  <2>3. q = CountsSet(r, counts, rtc.renders + 1) /\ rtc.renders + 1 \in Nat
    BY <1>4 DEF CountsSet, Rtc
  <2>4. rtc' = q
    BY <2>1 DEF Partial
  <2> HIDE DEF q, counts, window, r
  <2>5. rtc'.counts = counts /\ rtc'.footers = rtc.footers /\ rtc'.renders = rtc.renders + 1
    BY <1>4, <2>1, <2>3, <2>4, RegionsKeep
  <2>6. Limits'
    BY <1>5, <1>7, <2>2, <2>5 DEF TypeInv, Limits
  <2>7. Shades'
    BY <1>1, <1>3, <2>1, PartialTyped DEF TypeInv, Shades
  <2> QED
    BY <1>3, <2>6, <2>7 DEF TypeInv
<1>8. CASE \E needRed, why : Full(image, needRed, r, why)
  <2>1. NoCounts \in [1 .. MaxRegions -> 0 .. MaxPartials] /\ 0 \in 0 .. MaxPartials /\ 0 \in 0 .. RenderCap - 1
    BY LimitsAssumption DEF NoCounts
  <2> HIDE DEF r
  <2>2. rtc'.counts = NoCounts /\ rtc'.footers = 0 /\ rtc'.renders = 0 /\ glass' = image /\ buf' = image.bw
    BY <1>8 DEF Full
  <2> QED
    BY <1>1, <1>3, <2>1, <2>2 DEF TypeInv, Limits, Shades
<1> QED
  BY <1>2, <1>6, <1>7, <1>8

\* A full refresh that leaves the dashboard alone, or no refresh.
LEMMA PageTyped ==
    ASSUME TypeInv, BufferInv', Marked', UNCHANGED data,
           \/ \E image, needRed, r, why :
                 image.bw \in Drawings /\ image.red \in Reds \union {0, 1} /\ Full(image, needRed, r, why)
           \/ Skip(rtc)
    PROVE  TypeInv'
<1>1. CASE Skip(rtc)
  BY <1>1 DEF Skip, TypeInv, Limits, Shades
<1>2. ASSUME NEW image, NEW needRed, NEW r, NEW why, image.bw \in Drawings,
             image.red \in Reds \union {0, 1}, Full(image, needRed, r, why)
      PROVE  TypeInv'
  BY <1>2, FullTyped DEF TypeInv
<1> QED
  BY <1>1, <1>2

LEMMA ShowTyped ==
    ASSUME TypeInv, BufferInv',
           \/ ShowSleeping
           \/ \E kind \in Pages : ShowPage(kind)
           \/ \E powerOn \in BOOLEAN, seen \in Seen : ShowTimeout(powerOn, seen)
    PROVE  TypeInv'
<1>1. data' = data
  BY DEF ShowSleeping, ShowPage, ShowTimeout
<1>2. CASE ShowSleeping
  <2> DEFINE image == [bw |-> Sleeping(data.bw), red |-> data.red]
             r == [rtc EXCEPT !.clear = TRUE]
  <2>1. image.bw \in Drawings /\ image.red \in Reds \union {0, 1}
    BY ImagesTyped DEF TypeInv, Shades
  <2>2. Full(image, data.needRed, r, "full") /\ Marked'
    BY <1>2 DEF ShowSleeping, TypeInv, Marked
  <2> HIDE DEF image, r
  <2> QED
    BY <1>1, <2>1, <2>2, PageTyped
<1>3. ASSUME NEW kind \in Pages, ShowPage(kind)
      PROVE  TypeInv'
  <2> DEFINE image == Image(Plain(kind), IF kind = "ota" THEN 1 ELSE 0)
  <2>1. image.bw \in Drawings /\ image.red \in Reds \union {0, 1}
    BY ImagesTyped DEF Image, Kinds
  <2>2. Full(image, kind \in {"ota", "confirm"}, rtc, "full") /\ Marked'
    BY <1>3 DEF ShowPage, Mark, Shows, Pages, TypeInv, Marked
  <2> HIDE DEF image
  <2> QED
    BY <1>1, <2>1, <2>2, PageTyped
<1>4. ASSUME NEW powerOn \in BOOLEAN, NEW seen \in Seen, ShowTimeout(powerOn, seen)
      PROVE  TypeInv'
  <2> DEFINE image == Image(Plain("timeout"), 0)
  <2>1. image.bw \in Drawings /\ image.red \in Reds \union {0, 1}
    BY ImagesTyped DEF Image, Kinds
  <2>2. (Skip(rtc) \/ Full(image, FALSE, rtc, "full")) /\ Marked'
    BY <1>4 DEF ShowTimeout, Mark, TypeInv, Marked
  <2> HIDE DEF image
  <2> QED
    BY <1>1, <2>1, <2>2, PageTyped
<1> QED
  BY <1>2, <1>3, <1>4

LEMMA ShowResultTyped ==
    ASSUME TypeInv, BufferInv', NEW kind \in Results, ShowResult(kind)
    PROVE  TypeInv'
<1> DEFINE image == Image(Plain(kind), 0)
<1>1. /\ image.bw = Plain(kind) /\ Plain(kind) \in Drawings /\ image.red \in Reds \union {0, 1}
      /\ data' = data /\ Marked'
  BY ImagesTyped DEF Image, Kinds, ShowResult, Mark, TypeInv, Marked, Pages
<1>2. Partial(image.bw, Cells, rtc) \/ \E why : Full(image, FALSE, rtc, why)
  BY DEF ShowResult
<1> HIDE DEF image
<1>3. CASE Partial(image.bw, Cells, rtc)
  <2>1. rtc' = rtc
    BY <1>3 DEF Partial
  <2>2. Limits' /\ Shades'
    BY <1>1, <1>3, <2>1, PartialTyped DEF TypeInv, Limits, Shades
  <2> QED
    BY <1>1, <2>2 DEF TypeInv
<1> QED
  BY <1>1, <1>2, <1>3, PageTyped

LEMMA ShowOfflineTyped ==
    ASSUME TypeInv, BufferInv', NEW reason \in Outages, NEW n \in Attempts, NEW seen \in Seen,
           ShowOffline(reason, n, seen)
    PROVE  TypeInv'
<1> DEFINE counted == WithAttempt(buf, n)
           poster == Poster(reason, n)
           r == [rtc EXCEPT !.footers = @ + 1, !.renders = @ + 1]
<1>1. counted \in Drawings
  BY ImagesTyped DEF TypeInv, Shades
<1>2. poster.bw \in Drawings /\ poster.red \in Reds \union {0, 1}
  BY ImagesTyped DEF Poster, Image, Kinds
<1>3. Image(counted, 0).bw \in Drawings /\ Image(counted, 0).red \in Reds \union {0, 1}
  BY <1>1 DEF Image
<1>4. data' = data /\ Marked' /\ rtc \in Rtc
  BY DEF ShowOffline, Mark, TypeInv, Marked, Outages, BufferInv
<1>5. \/ FooterAllowed /\ Partial(counted, FooterCells, r)
      \/ Skip(rtc)
      \/ Full(poster, TRUE, rtc, Why(seen))
      \/ \E why : Full(Image(counted, 0), TRUE, rtc, why)
  BY DEF ShowOffline
<1>6. CASE FooterAllowed /\ Partial(counted, FooterCells, r)
  <2>1. /\ rtc.footers + 1 \in 0 .. MaxPartials /\ rtc.renders + 1 \in 0 .. RenderCap - 1
        /\ rtc.footers + 1 \in Nat /\ rtc.renders + 1 \in Nat
    BY <1>4, <1>6, LimitsAssumption DEF FooterAllowed, Rtc
  <2>2. rtc' = FootersSet(rtc, rtc.footers + 1, rtc.renders + 1)
    BY <1>6 DEF Partial, FootersSet
  <2> HIDE DEF counted, r
  <2>3. rtc'.footers = rtc.footers + 1 /\ rtc'.renders = rtc.renders + 1 /\ rtc'.counts = rtc.counts
    BY <1>4, <2>1, <2>2, FooterKeeps
  <2>4. Limits' /\ Shades'
    BY <1>1, <1>4, <1>6, <2>1, <2>3, PartialTyped DEF TypeInv, Limits, Shades
  <2> QED
    BY <1>4, <2>4 DEF TypeInv
<1> HIDE DEF counted, poster, r
<1> QED
  BY <1>2, <1>3, <1>4, <1>5, <1>6, PageTyped

LEMMA TypesStart == ASSUME Init PROVE TypeInv
<1>1. NoCounts \in [1 .. MaxRegions -> 0 .. MaxPartials] /\ 0 \in 0 .. MaxPartials /\ 0 \in 0 .. RenderCap - 1
  BY LimitsAssumption DEF NoCounts
<1>2. Limits
  BY <1>1 DEF Init, RtcStart, Limits
<1>3. Shades /\ Marked
  BY ImagesTyped DEF Init, Shades, Marked, Blank, NoData, Kinds
<1> QED
  BY <1>2, <1>3, BuffersStart DEF TypeInv

LEMMA TypesStep == ASSUME TypeInv, [Next]_vars PROVE TypeInv'
<1>1. BufferInv'
  BY BuffersStep DEF TypeInv
<1>2. CASE UNCHANGED vars
  BY <1>1, <1>2 DEF vars, TypeInv, Limits, Shades, Marked
<1>3. ASSUME NEW bw \in [Cells -> {"dash"} \X Inks], NEW red \in Reds, NEW alert \in BOOLEAN,
             NEW github \in BOOLEAN, NEW seen \in Seen, Render(bw, red, alert, github, seen)
      PROVE  TypeInv'
  BY <1>1, <1>3, RenderTyped
<1>4. ASSUME NEW reason \in Outages, NEW n \in Attempts, NEW seen \in Seen,
             ShowOffline(reason, n, seen)
      PROVE  TypeInv'
  BY <1>1, <1>4, ShowOfflineTyped
<1>5. ASSUME NEW kind \in Results, ShowResult(kind)
      PROVE  TypeInv'
  BY <1>1, <1>5, ShowResultTyped
<1>6. CASE \/ ShowSleeping
           \/ \E kind \in Pages : ShowPage(kind)
           \/ \E powerOn \in BOOLEAN, seen \in Seen : ShowTimeout(powerOn, seen)
  BY <1>1, <1>6, ShowTyped
<1>7. CASE Restart
  <2>1. NoCounts \in [1 .. MaxRegions -> 0 .. MaxPartials] /\ 0 \in 0 .. MaxPartials /\ 0 \in 0 .. RenderCap - 1
    BY LimitsAssumption DEF NoCounts
  <2>2. Limits'
    BY <1>7, <2>1 DEF Restart, RtcStart, Limits
  <2>3. Shades' /\ Marked'
    BY <1>7, ImagesTyped DEF Restart, Shades, Marked, TypeInv, Blank, NoData, Kinds
  <2> QED
    BY <1>1, <2>2, <2>3 DEF TypeInv
<1> QED
  BY <1>2, <1>3, <1>4, <1>5, <1>6, <1>7, NextRender DEF Next

\* The counters bound what they are for, whatever becomes of the marks: ghosting
\* by s_max_partials_per_region, the time without a full refresh by a day.
THEOREM RefreshesAreBounded == Spec => []RefreshesBounded
<1>1. Init => TypeInv
  BY TypesStart
<1>2. TypeInv /\ [Next]_vars => TypeInv'
  BY TypesStep
<1>3. TypeInv => TypeOK
  BY DEF TypeInv, TypeOK, Limits, Shades, Marked
<1>4. CountInv => GhostBounded /\ DailyFull
  BY CountsBound
<1> QED
  BY <1>1, <1>2, <1>3, <1>4, CountsAlways, PTL DEF Spec, RefreshesBounded
=============================================================================
