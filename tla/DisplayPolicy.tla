----------------------------- MODULE DisplayPolicy -----------------------------
(***************************************************************************)
(* What the panel really shows: the calls of display.c that draw, which    *)
(* choose between no refresh, partial refreshes and a full one, and the    *)
(* caches they choose by.                                                  *)
(*                                                                         *)
(* The screen is cut into cells that no border of a region crosses.  The   *)
(* panel keeps its image through resets; a partial refresh drives only     *)
(* pixels in which the old and the new image that it is given differ.      *)
(***************************************************************************)
EXTENDS Integers, Sequences, FiniteSets

CONSTANTS
    Cells,       \* parts of the screen
    Layouts,     \* the regions with the GitHub strip and without, by BOOLEAN
    FooterCells, \* the window of the attempt number, and of the sleeping footer
    HeaderCells, \* where the sleeping page shows its moon
    Inks, Reds,  \* what a cell of a dashboard shows, what its red plane shows (0: nothing)
    Attempts,    \* attempt numbers of an outage
    MaxPartials, \* s_max_partials_per_region
    RenderCap,   \* render_count_cap, 24 hours of refresh intervals
    MaxRetries   \* bound: reports of a reset in a row

ASSUME LayoutsAssumption ==
    Layouts \in [BOOLEAN -> Seq(SUBSET Cells)] /\ FooterCells \union HeaderCells \subseteq Cells
\* The regions of a layout are disjoint and cover the screen; no layout has more
\* of them than REGION_COUNT_MAX.
MaxRegions == 7
ASSUME RegionsAssumption ==
    /\ FooterCells # {}
    /\ \A github \in BOOLEAN :
          /\ DOMAIN Layouts[github] \subseteq 1 .. MaxRegions
          /\ UNION {Layouts[github][i] : i \in DOMAIN Layouts[github]} = Cells
          /\ \A i, j \in DOMAIN Layouts[github] :
                i # j => Layouts[github][i] \intersect Layouts[github][j] = {}
ASSUME LimitsAssumption ==
    /\ MaxPartials \in Nat \ {0} /\ RenderCap \in Nat \ {0} /\ MaxRetries \in Nat
    /\ 0 \in Reds /\ 0 \in Inks

VARIABLES
    variant, \* effective_panel_variant
    glass,   \* the image on the panel
    buf,     \* s_last_bw_buf
    rtc,     \* the other RTC_DATA_ATTR variables
    data,    \* the dashboard of s_last_data, drawn, and whether it asks for red
    frame,   \* display_meta_t.frame, in flash
    asked,   \* history: the kind and the image of the last call
    how,     \* history: its refresh: "full", "partial", "none", or "repair", which is full
             \* after a failed partial one or a mark that could not be read
    slips,   \* history: why a mark or the red plane may not be what the caches say
    ghost,   \* history: partial refreshes of each cell since a full one
    since    \* history: updates since a full refresh
vars == <<variant, glass, buf, rtc, data, frame, asked, how, slips, ghost, since>>

Variants == {"BW", "BWR"}
Outages == {"wifi", "api"}
Pages == {"connecting", "ota", "qr", "failed", "confirm"}
Results == {"done", "fail", "wiping"}

NoCounts == [i \in 1 .. MaxRegions |-> 0]
RtcStart == [first |-> FALSE, red |-> FALSE, content |-> FALSE, bwValid |-> FALSE, counts |-> NoCounts,
             footers |-> 0, clear |-> FALSE, renders |-> 0, github |-> FALSE, layout |-> FALSE]

\* Images.
Plain(kind) == [c \in Cells |-> <<kind, 0>>]
WithAttempt(bw, n) == [c \in Cells |-> IF c \in FooterCells THEN <<"attempt", n>> ELSE bw[c]]
Sleeping(bw) ==
    [c \in Cells |-> CASE c \in FooterCells -> <<"sleeping", 0>>
                       [] c \in HeaderCells -> <<"moon", bw[c][2]>>
                       [] OTHER -> bw[c]]
Image(bw, red) == [bw |-> bw, red |-> IF variant = "BW" THEN 0 ELSE red]
Blank == [bw |-> Plain("dash"), red |-> 0]
NoData == [bw |-> Blank.bw, red |-> 0, needRed |-> FALSE]

\* While a portal is open app_main draws nothing else; it ends in a restart, or
\* in a page of its own and a deep sleep.
InPortal == asked.kind \in {"qr", "confirm"} \union Results

Differ(a, b) == {c \in Cells : a[c] # b[c]}

Asked(kind, image) == asked' = [kind |-> kind, image |-> image]
----------------------------------------------------------------------------
\* Refreshes.

\* display_full_refresh, which cannot fail
Full(image, needRed, r, why) ==
    /\ glass' = image /\ buf' = image.bw
    /\ rtc' = [first |-> TRUE, red |-> variant = "BWR" /\ needRed, content |-> r.content, bwValid |-> TRUE,
                counts |-> NoCounts, footers |-> 0, clear |-> r.clear, renders |-> 0,
                github |-> r.github, layout |-> r.layout]
    /\ how' = why /\ ghost' = [c \in Cells |-> 0] /\ since' = 0

\* What the panel drives when it is given an old and a new image for a window.
Driven(window, old, new) == [glass EXCEPT !.bw = [c \in Cells |->
    IF c \in window /\ old[c] # new[c] THEN new[c] ELSE glass.bw[c]]]

BufferKept(bw) == buf \* mutant
Buffer(bw) == bw

\* eink_refresh_bw_partial in a window, and the commit that follows
Partial(bw, window, r) ==
    /\ glass' = Driven(window, buf, bw) /\ buf' = Buffer(bw)
    /\ rtc' = r
    /\ how' = "partial" /\ since' = since + 1
    /\ ghost' = [c \in Cells |-> IF c \in window THEN ghost[c] + 1 ELSE ghost[c]]

Skip(r) == rtc' = r /\ how' = "none" /\ UNCHANGED <<glass, buf, ghost>>

\* display_meta_load, which knows no frame when it fails
Seen == {frame, "none"}
Why(seen) == IF seen = frame THEN "full" ELSE "repair"

\* display_mark_frame; flash may not take the mark.  The other slips are given.
Mark(f, others) ==
    \/ frame' = f /\ slips' = others
    \/ frame # f /\ frame' = frame /\ slips' = others \union {"mark"}
----------------------------------------------------------------------------
\* The dashboard.

\* render_bw_regions: the regions to refresh, and whether the plan stands
Changed(bw, github) == {i \in DOMAIN Layouts[github] : Layouts[github][i] \intersect Differ(buf, bw) # {}}

Planned(bw, github) ==
    /\ Changed(bw, github) # {}
    /\ Differ(buf, bw) \subseteq UNION {Layouts[github][i] : i \in DOMAIN Layouts[github]}
    /\ \A i \in Changed(bw, github) : rtc.counts[i] + 1 <= MaxPartials

RegionsDrawn(bw, github, r) ==
    LET changed == Changed(bw, github)
    IN Partial(bw, UNION {Layouts[github][i] : i \in changed},
               [r EXCEPT !.counts = [i \in 1 .. MaxRegions |-> IF i \in changed THEN @[i] + 1 ELSE @[i]],
                         !.renders = @ + 1])

NeverFlips(github) == FALSE \* mutant
LayoutFlips(github) == variant = "BW" /\ rtc.layout /\ rtc.github # github

ForcesFull(github) == ~rtc.first \/ rtc.renders + 1 >= RenderCap \/ LayoutFlips(github) \/ rtc.clear

\* Eligible for partial refreshes, before render_bw_regions plans them
Eligible(needRed, seen) ==
    variant = "BW" /\ ~needRed /\ ~rtc.red /\ rtc.bwValid /\ rtc.content /\ seen = "content"

Unchanged(bw, needRed) == rtc.bwValid /\ ~needRed /\ ~rtc.red /\ Differ(buf, bw) = {}

Tick(r) == [r EXCEPT !.renders = @ + 1]

Rendered(github) ==
    [first |-> rtc.first, red |-> rtc.red, content |-> TRUE, bwValid |-> rtc.bwValid,
     counts |-> rtc.counts, footers |-> rtc.footers, clear |-> FALSE, renders |-> rtc.renders,
     github |-> IF variant = "BW" THEN github ELSE rtc.github, layout |-> rtc.layout \/ variant = "BW"]

\* An amount of money is drawn in red and asks for no red refresh.  It is on the
\* panel, or was asked for, until the next full one.
Unasked(image, needRed, same) ==
    IF (image.red # 0 /\ ~needRed) \/ (same /\ "money" \in slips) THEN {"money"} ELSE {}

Render(bw, red, alert, github, seen) ==
    LET image == Image(bw, red)
        needRed == variant = "BWR" /\ alert
        same == ~ForcesFull(github) /\ Unchanged(bw, needRed)
        regions == ~ForcesFull(github) /\ ~same /\ Eligible(needRed, seen) /\ Planned(bw, github)
        r == Rendered(github)
    IN /\ ~InPortal
       /\ \/ same /\ Skip(Tick(r)) /\ since' = since + 1
          \/ regions /\ RegionsDrawn(bw, github, r)
          \/ regions /\ Full(image, needRed, r, "repair")
          \/ ~same /\ ~regions /\ Full(image, needRed, r, Why(seen))
       /\ Asked(IF github THEN "github" ELSE "plain", image)
       /\ data' = [bw |-> bw, red |-> image.red, needRed |-> needRed]
       /\ Mark("content", Unasked(image, needRed, same))
       /\ UNCHANGED variant

\* display_show_sleeping, which leaves the kind of frame as it was: in an outage
\* it is still the poster's.
ShowSleeping ==
    LET image == [bw |-> Sleeping(data.bw), red |-> data.red]
    IN /\ ~InPortal
       /\ Full(image, data.needRed, [rtc EXCEPT !.clear = TRUE], "full")
       /\ Asked("sleeping", image)
       /\ slips' = (slips \ {"money"}) \union (IF frame = "content" THEN {} ELSE {"quiet"})
       /\ UNCHANGED <<variant, data, frame>>
----------------------------------------------------------------------------
\* Outages.

\* offline_partial_refresh_allowed
FooterAllowedEarly == rtc.footers < MaxPartials - 1 /\ rtc.renders + 1 < RenderCap \* mutant
FooterAllowed == rtc.footers < MaxPartials /\ rtc.renders + 1 < RenderCap

SameFrame(reason, seen) == rtc.first /\ rtc.bwValid \* mutant
SameOutage(reason, seen) == seen = reason /\ rtc.first /\ rtc.bwValid

Poster(reason, n) == Image(WithAttempt(Plain(reason), n), 1)

\* display_show_offline for networks or endpoints: a new poster, or the attempt
\* number alone over the image that is remembered
ShowOffline(reason, n, seen) ==
    LET same == SameOutage(reason, seen)
        counted == WithAttempt(buf, n)
        skips == counted = buf \/ variant = "BWR"
        footer == ~skips /\ FooterAllowed
    IN /\ ~InPortal
       /\ \/ ~same /\ Full(Poster(reason, n), TRUE, rtc, Why(seen)) /\ Mark(reason, {})
          \/ same /\ skips /\ Skip(rtc) /\ UNCHANGED <<since, frame, slips>>
          \/ /\ same /\ footer
             /\ Partial(counted, FooterCells, [rtc EXCEPT !.footers = @ + 1, !.renders = @ + 1])
             /\ UNCHANGED <<frame, slips>>
          \/ /\ same /\ ~skips
             /\ Full(Image(counted, 0), TRUE, rtc, IF footer THEN "repair" ELSE "full")
             /\ Mark(reason, slips)
       /\ Asked(reason, Poster(reason, n))
       /\ UNCHANGED <<variant, data>>
----------------------------------------------------------------------------
\* Pages that are put up in full, and what follows a portal.

Shows(kind) == IF kind \in {"confirm", "failed"} THEN "qr" ELSE kind

ShowPage(kind) ==
    LET image == Image(Plain(kind), IF kind = "ota" THEN 1 ELSE 0)
    IN /\ kind = "connecting" => asked.kind = "none"
       /\ kind = "ota" => ~InPortal
       /\ kind \in {"confirm", "failed"} => asked.kind = "qr"
       /\ Full(image, kind \in {"ota", "confirm"}, rtc, "full")
       /\ Asked(kind, image) /\ Mark(Shows(kind), {})
       /\ UNCHANGED <<variant, data>>

\* reset_result_commit: the whole panel, and never counted
ShowResult(kind) ==
    LET image == Image(Plain(kind), 0)
        partial == variant = "BW" /\ rtc.bwValid
    IN /\ asked.kind \in {"confirm", "fail"} /\ since < MaxRetries
       /\ \/ partial /\ Partial(image.bw, Cells, rtc)
          \/ Full(image, FALSE, rtc, IF partial THEN "repair" ELSE "full")
       /\ Asked(kind, image) /\ Mark("qr", {})
       /\ UNCHANGED <<variant, data>>

\* display_show_offline when a portal ends; it trusts the mark unless power was lost
ShowTimeout(powerOn, seen) ==
    LET image == Image(Plain("timeout"), 0)
    IN /\ asked.kind = "qr"
       /\ IF seen = "timeout" /\ ~powerOn THEN Skip(rtc) /\ UNCHANGED <<since, frame, slips>>
          ELSE Full(image, FALSE, rtc, "full") /\ Mark("timeout", {})
       /\ Asked("timeout", image)
       /\ UNCHANGED <<variant, data>>

\* A reset, also in the middle of a refresh; the portal may have changed the variant.
Restart ==
    /\ variant' \in Variants
    /\ \/ UNCHANGED glass
       \/ glass' = [bw |-> Plain("torn"), red |-> 0]
    /\ rtc' = RtcStart /\ data' = NoData /\ buf' = Blank.bw /\ slips' = {}
    /\ asked' = [kind |-> "none", image |-> Blank] /\ how' = "none"
    /\ UNCHANGED <<frame, ghost, since>>
----------------------------------------------------------------------------
Init ==
    /\ variant \in Variants
    /\ glass = [bw |-> Plain("torn"), red |-> 0]
    /\ rtc = RtcStart /\ data = NoData /\ buf = Blank.bw /\ frame = "none" /\ slips = {}
    /\ asked = [kind |-> "none", image |-> Blank] /\ how = "none"
    /\ ghost = [c \in Cells |-> 0] /\ since = 0

\* A BW panel makes no difference between them.
RedParts == IF variant = "BW" THEN [red: {0}, alert: {FALSE}] ELSE [red: Reds, alert: BOOLEAN]

Next ==
    \/ \E bw \in [Cells -> {"dash"} \X Inks], drawn \in RedParts, github \in BOOLEAN, seen \in Seen :
            Render(bw, drawn.red, drawn.alert, github, seen)
    \/ ShowSleeping
    \/ \E reason \in Outages, n \in Attempts, seen \in Seen : ShowOffline(reason, n, seen)
    \/ \E kind \in Pages : ShowPage(kind)
    \/ \E kind \in Results : ShowResult(kind)
    \/ \E powerOn \in BOOLEAN, seen \in Seen : ShowTimeout(powerOn, seen)
    \/ Restart

Spec == Init /\ [][Next]_vars
----------------------------------------------------------------------------
\* Properties.

Drawings == [Cells -> ({"dash", "moon"} \X Inks) \union ({"attempt"} \X Attempts)
                      \union ((Pages \union Results \union Outages \union {"sleeping", "timeout", "torn"}) \X {0})]

TypeOK ==
    /\ variant \in Variants /\ frame \in Pages \union Outages \union {"none", "content", "timeout"}
    /\ glass.bw \in Drawings /\ glass.red \in Reds \union {0, 1} /\ buf \in Drawings
    /\ rtc.counts \in [1 .. MaxRegions -> 0 .. MaxPartials] /\ rtc.footers \in 0 .. MaxPartials
    /\ rtc.renders \in 0 .. RenderCap - 1

\* What the last call was asked to show is on the panel.  A BWR panel keeps the
\* first attempt number of a poster, so as not to refresh in full for it.  Two
\* things may be amiss.  A poster goes by the mark of the frame on the panel,
\* which is another when flash did not take one or the sleeping page was put over
\* a poster.  And the red of a dashboard goes by whether it asks for red, which
\* an amount of money does not.
ShownAsAsked ==
    LET fixed == IF variant = "BWR" /\ asked.kind \in Outages THEN FooterCells ELSE {}
        misled == asked.kind \in Outages \union {"timeout"} /\ slips # {}
        unasked == asked.kind \in {"plain", "github"} /\ how = "none" /\ "money" \in slips
    IN asked.kind # "none" /\ ~misled =>
           /\ glass.red = asked.image.red \/ unasked
           /\ Differ(glass.bw, asked.image.bw) \subseteq fixed

\* The image that the next partial refresh starts from is the one on the panel,
\* also after partial refreshes that failed.
BufferTrue == rtc.bwValid => buf = glass.bw

\* No part of the panel takes more partial refreshes than allowed before it is
\* refreshed in full, whichever layouts and posters they came from.  Only the
\* pages that report a reset are exempt, and the dashboard returns after a reset.
GhostBounded == asked.kind \notin Results \union {"none"} => \A c \in Cells : ghost[c] <= MaxPartials

\* Also a panel with nothing new to show is refreshed in full once a day.
DailyFull == asked.kind \notin Results \union {"none"} => since < RenderCap

\* The counters do what they are for: neither limit is ever passed.
RefreshesBounded == TypeOK /\ GhostBounded /\ DailyFull

\* While the same kind of image is shown again and again on a BW panel, with no
\* failed refresh and with a mark that flash took and gave back, full refreshes
\* are as far apart as the partial ones and the day allow.
FullsApart ==
    [][variant = "BW" /\ how' = "full" /\ "mark" \notin slips /\ asked'.kind = asked.kind
            /\ asked.kind \in Outages \union {"plain", "github"}
        => since >= MaxPartials \/ since + 1 >= RenderCap]_vars
=============================================================================
