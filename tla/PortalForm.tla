------------------------------ MODULE PortalForm ------------------------------
(***************************************************************************)
(* The configuration page of the portal and what a save makes of it: the   *)
(* page rendered from the stored configuration, the edits its script       *)
(* allows, the form's validation in handler_save, and apply_form_to_cfg,   *)
(* which rebuilds the configuration and hands the stored secrets over by   *)
(* id (wifi_prov.c).                                                       *)
(*                                                                         *)
(* Networks and API endpoints are rows alike: a name (the SSID, the URL)   *)
(* and a secret (the password, the token).  A secret is written as the     *)
(* name of the entry the user typed it for, so that a secret that ends up  *)
(* at another entry shows.  storage_save_v2 is one step here.              *)
(*                                                                         *)
(* Its Init, Next, Spec and TypeOK are named FormInit and so on, so that   *)
(* PortalProofs can extend this module and Provisioning together.          *)
(***************************************************************************)
EXTENDS Integers, Sequences, FiniteSetsExt

CONSTANTS
    Name,        \* SSIDs and URLs
    None,        \* an empty field
    Tab,         \* the browser pages the user has open
    MaxNets,     \* MAX_WIFI_NETWORKS
    MaxApis,     \* MAX_APIS_PER_NETWORK
    Users,       \* the networks stored at first, the names a user types, the panel
                 \* settings chosen, the pages used, the edits between two saves (a bound),
                 \* and whether the user posts error pages again instead of reloading
    MaxSaves     \* bound: saves

\* dashboard_refresh_minimum is 1 or 3; DASH_MAX_PARTIALS_MIN is 1.
Settings == [bw: BOOLEAN, partials: {1, 2}, refresh: {1, 3}]

\* A stored endpoint, a stored network, and what a device may have stored.
Api == [id: Nat \ {0}, name: Name, secret: Name \union {None}]
Net == [id: Nat \ {0}, name: Name, secret: Name \union {None}, apis: Seq(Api)]

Fits(ws) ==
    /\ ws \in Seq(Net) /\ Len(ws) <= MaxNets
    /\ \A i \in DOMAIN ws : Len(ws[i].apis) <= MaxApis

EntriesOf(ws) == UNION {{ws[i]} \union {ws[i].apis[j] : j \in DOMAIN ws[i].apis} : i \in DOMAIN ws}

DistinctIds(ws) ==
    \A i, j \in DOMAIN ws :
        /\ ws[i].id = ws[j].id => i = j
        /\ \A k \in DOMAIN ws[i].apis :
              /\ ws[i].apis[k].id # ws[j].id
              /\ \A m \in DOMAIN ws[j].apis : ws[i].apis[k].id = ws[j].apis[m].id => i = j /\ k = m

OwnSecrets(ws) == \A e \in EntriesOf(ws) : e.secret \in {e.name, None}

ASSUME NameAssumption == None \notin Name
ASSUME SizeAssumption == MaxNets \in Nat \ {0} /\ MaxApis \in Nat \ {0}
ASSUME BoundAssumption == MaxSaves \in Nat
ASSUME UserAssumption ==
    \A u \in Users : /\ Fits(u.stored) /\ DistinctIds(u.stored) /\ OwnSecrets(u.stored)
                     /\ u.names \subseteq Name /\ u.panels \subseteq Settings /\ u.tabs \subseteq Tab
                     /\ u.edits \in Nat /\ u.resubmits \in BOOLEAN

VARIABLES
    nets,      \* the stored networks, each with its API endpoints
    settings,  \* the stored panel, partial refreshes and refresh interval
    page,      \* what each tab shows, or Closed
    edits,     \* edits since the last save
    saves,
    user       \* one of Users
formVars == <<nets, settings, page, edits, saves, user>>

Nets == 1 .. MaxNets
Apis == 1 .. MaxApis

NoApi == [id |-> 0, name |-> None, secret |-> None]
NoNet == [id |-> 0, name |-> None, secret |-> None, apis |-> <<>>]
Closed == [open |-> FALSE]

Row == [id: Nat, on: BOOLEAN, name: Name \union {None}, typed: Name \union {None},
        clear: BOOLEAN, kept: BOOLEAN]
Page == [open: {TRUE}, settings: Settings, nets: [Nets -> Row], apis: [Nets -> [Apis -> Row]]]
----------------------------------------------------------------------------
\* The page.

\* "current password kept", "current token kept" and the hidden id
Show(e) == [id |-> e.id, on |-> e.id # 0, name |-> e.name, typed |-> None,
            clear |-> FALSE, kept |-> e.secret # None]

Nth(s, i, none) == IF i \in DOMAIN s THEN s[i] ELSE none

Render(ws, s) ==
    [open |-> TRUE, settings |-> s,
     nets |-> [n \in Nets |-> Show(Nth(ws, n, NoNet))],
     apis |-> [n \in Nets |-> [k \in Apis |-> Show(Nth(Nth(ws, n, NoNet).apis, k, NoApi))]]]

\* The rows a save looks at, network rows as the row 0 of their API rows.
RowOf(p, n, k) == IF k = 0 THEN p.nets[n] ELSE p.apis[n][k]
Enabled(p) == {r \in Nets \X (0 .. MaxApis) : p.nets[r[1]].on /\ RowOf(p, r[1], r[2]).on}
----------------------------------------------------------------------------
\* From the form to a configuration.

\* dashboard_refresh_config_is_valid
RefreshValid(s) == s.refresh >= (IF s.bw /\ s.partials >= 2 THEN 1 ELSE 3)

ValidRow(r) == r.name # None /\ (r.id = 0 => r.typed # None)

RefreshAcceptedAny(s) == TRUE \* mutant
RefreshAccepted(s) == RefreshValid(s)

Valid(p) == RefreshAccepted(p.settings) /\ \A r \in Enabled(p) : ValidRow(RowOf(p, r[1], r[2]))

\* The stored entry of this id; ids are looked up, positions are not.
Match(id, entries, none) ==
    IF id # 0 /\ \E i \in DOMAIN entries : entries[i].id = id
    THEN entries[CHOOSE i \in DOMAIN entries : entries[i].id = id]
    ELSE none

OldNet(p, n) == Match(p.nets[n].id, nets, NoNet)
\* An API is looked up in the network its network row was found as.
OldApiByPlace(p, n, k) == Nth(OldNet(p, n).apis, k, NoApi) \* mutant
OldApi(p, n, k) == Match(p.apis[n][k].id, OldNet(p, n).apis, NoApi)
Old(p, n, k) == IF k = 0 THEN OldNet(p, n) ELSE OldApi(p, n, k)

\* storage_next_profile_id, of the configuration being replaced
IdsOf(ws) == {e.id : e \in EntriesOf(ws)}
NextId(ws) == IF IdsOf(ws) = {} THEN 1 ELSE Max(IdsOf(ws)) + 1

\* next_id++ at every enabled row without a stored entry, in form order
Minted(p, n, k) ==
    NextId(nets) +
    Cardinality({r \in Enabled(p) : /\ r[1] < n \/ (r[1] = n /\ r[2] < k)
                                    /\ Old(p, r[1], r[2]).id = 0})

IdOf(p, n, k) == IF Old(p, n, k).id # 0 THEN Old(p, n, k).id ELSE Minted(p, n, k)

SecretOf(p, n, k) ==
    LET r == RowOf(p, n, k)
    IN IF r.typed # None THEN r.typed ELSE IF r.clear THEN None ELSE Old(p, n, k).secret

Entry(p, n, k) ==
    [id |-> IdOf(p, n, k), name |-> RowOf(p, n, k).name, secret |-> SecretOf(p, n, k)]

\* Rows that are off are dropped and the others close up.
On(rows) ==
    LET on[i \in 0 .. Len(rows)] ==
            IF i = 0 THEN <<>> ELSE IF rows[i].on THEN Append(on[i - 1], i) ELSE on[i - 1]
    IN on[Len(rows)]

Applied(p) ==
    LET on == On(p.nets)
        ApisOf(n) == LET ks == On(p.apis[n]) IN [j \in DOMAIN ks |-> Entry(p, n, ks[j])]
    IN [i \in DOMAIN on |->
          [id |-> IdOf(p, on[i], 0), name |-> p.nets[on[i]].name,
           secret |-> SecretOf(p, on[i], 0), apis |-> ApisOf(on[i])]]

\* A refresh interval that is not valid with the submitted panel is not taken.
AppliedSettings(s) == IF RefreshValid(s) THEN s ELSE [s EXCEPT !.refresh = settings.refresh]

\* clamp_refresh, in storage_save_v2
Clamped(s) == IF RefreshValid(s) THEN s ELSE [s EXCEPT !.refresh = 3]
----------------------------------------------------------------------------
\* The user.

FormInit ==
    /\ user \in Users /\ nets = user.stored
    /\ settings = [bw |-> FALSE, partials |-> 2, refresh |-> 3]
    /\ page = [t \in Tab |-> Closed]
    /\ edits = 0 /\ saves = 0

\* handler_root
Open(t) ==
    /\ page' = [page EXCEPT ![t] = Render(nets, settings)]
    /\ UNCHANGED <<nets, settings, edits, saves, user>>

Edit(t, p) ==
    /\ edits < user.edits
    /\ page' = [page EXCEPT ![t] = p]
    /\ edits' = edits + 1
    /\ UNCHANGED <<nets, settings, saves, user>>

EditRow(t, n, k, r) ==
    Edit(t, IF k = 0 THEN [page[t] EXCEPT !.nets[n] = r] ELSE [page[t] EXCEPT !.apis[n][k] = r])

Toggle(t, n, k) ==
    /\ k # 0 => page[t].nets[n].on
    /\ EditRow(t, n, k, [RowOf(page[t], n, k) EXCEPT !.on = ~@])

\* A user who names an entry anew types its secret too, but may forget the
\* secret of an entry the page shows as new.
Type(t, n, k, x, withSecret) ==
    LET r == RowOf(page[t], n, k)
    IN /\ <<n, k>> \in Enabled(page[t])
       /\ ~withSecret => r.id = 0
       /\ EditRow(t, n, k, [r EXCEPT !.name = x, !.clear = FALSE,
                                     !.typed = IF withSecret THEN x ELSE None])

\* "Clear saved password" empties the field and disables it; a user ticks it
\* beside a field left empty.
ClearSecret(t, n, k) ==
    LET r == RowOf(page[t], n, k)
    IN /\ <<n, k>> \in Enabled(page[t]) /\ r.kept /\ r.typed = None
       /\ EditRow(t, n, k, [r EXCEPT !.clear = ~@])

\* An arrow swaps an enabled API row with the enabled one before it, and the
\* rows between them stay where they are.
MoveUp(t, n, k) ==
    LET above == {j \in Apis : j < k /\ page[t].apis[n][j].on}
        rows == page[t].apis[n]
    IN /\ <<n, k>> \in Enabled(page[t]) /\ above # {}
       /\ Edit(t, [page[t] EXCEPT !.apis[n] = [rows EXCEPT ![k] = rows[Max(above)],
                                                           ![Max(above)] = rows[k]]])

Choose(t, s) == s # page[t].settings /\ Edit(t, [page[t] EXCEPT !.settings = s])
----------------------------------------------------------------------------
\* handler_save.

Accept(t) ==
    /\ saves < MaxSaves /\ Valid(page[t])
    /\ nets' = Applied(page[t])
    /\ settings' = Clamped(AppliedSettings(page[t].settings))
    /\ page' = [page EXCEPT ![t] = Closed]
    /\ saves' = saves + 1 /\ edits' = 0
    /\ UNCHANGED user

\* render_save_error: what the save would have stored is rendered as if it had
\* been.
ErrorPage(p) == Render(Applied(p), AppliedSettings(p.settings))

\* The form is not valid, or flash cannot be written.
Refuse(t) ==
    /\ page' = [page EXCEPT ![t] = IF user.resubmits THEN ErrorPage(@) ELSE Closed]
    /\ UNCHANGED <<nets, settings, edits, saves, user>>

Use(t) ==
    \/ \E n \in Nets, k \in 0 .. MaxApis :
          \/ Toggle(t, n, k)
          \/ \E x \in user.names, withSecret \in BOOLEAN : Type(t, n, k, x, withSecret)
          \/ ClearSecret(t, n, k)
          \/ k # 0 /\ MoveUp(t, n, k)
    \/ \E s \in user.panels : Choose(t, s)
    \/ Accept(t)
    \/ Refuse(t)

FormNext == \E t \in user.tabs : Open(t) \/ (page[t].open /\ Use(t))

FormSpec == FormInit /\ [][FormNext]_formVars
----------------------------------------------------------------------------
\* Properties.

FormTypeOK ==
    /\ Fits(nets) /\ settings \in Settings /\ RefreshValid(settings)
    /\ page \in [Tab -> Page \union {Closed}]
    /\ edits \in 0 .. user.edits /\ saves \in 0 .. MaxSaves

\* Works in one page and leaves error pages: what the page shows is stored.
Careful == (\A s, t \in user.tabs : s = t) /\ ~user.resubmits

\* No two entries of the stored configuration, networks and APIs together,
\* have the same id, whichever pages are saved in whatever order: the ids are
\* what the next save finds an entry's secret by.
IdsUnique == DistinctIds(nets)

\* However a careful user moves rows, switches them off and refills them, a
\* stored secret is the one that was typed for the entry it is stored at.
SecretsFollowEntries == Careful => OwnSecrets(nets)

\* What the page of a careful user says of a secret is what a save does: a row that
\* says its secret is kept keeps one, and a row that does not say so has none
\* unless one is typed.
KeptMeansKept ==
    \A t \in Tab : Careful /\ page[t].open =>
        \A r \in Enabled(page[t]) :
            LET row == RowOf(page[t], r[1], r[2])
            IN row.typed = None /\ ~row.clear
               => (row.kept <=> SecretOf(page[t], r[1], r[2]) # None)

\* What the next page and the next save rely on: ids that tell entries apart,
\* secrets at the entries they were typed for, and a page that does not lie.
FormSafety == FormTypeOK /\ IdsUnique /\ SecretsFollowEntries /\ KeptMeansKept

\* A configuration with the secrets flash has for its entries.
Held(id) ==
    IF \E e \in EntriesOf(nets) : e.id = id
    THEN (CHOOSE e \in EntriesOf(nets) : e.id = id).secret ELSE None
WithStoredSecrets(ws) ==
    [i \in DOMAIN ws |->
        [ws[i] EXCEPT !.secret = Held(ws[i].id),
                      !.apis = [j \in DOMAIN @ |-> [ws[i].apis[j] EXCEPT !.secret = Held(ws[i].apis[j].id)]]]]

\* "Surface the exact NVS error as an inline banner on the re-rendered portal
\* (keeping the user's edits)" (wifi_prov.c:1648): an error page that is posted
\* again, whatever was edited and whichever other page was saved before, makes what
\* the refused form would have made, entry by entry, ids and order included, but for
\* its secrets.  Those typed and those cleared are forgotten: entries that are
\* stored have the secret they have there, and new ones have none, although the
\* page says that theirs is kept.
RetryForgetsOnlySecrets ==
    \A t \in Tab : user.resubmits /\ page[t].open =>
        \A again \in {ErrorPage(page[t])} :
            Applied(again) = WithStoredSecrets(Applied(page[t]))

\* The three places that judge a refresh interval, the validation, the rebuild and
\* the store, agree: none replaces a value the form was accepted with.
RefreshIsTaken ==
    \A t \in Tab : page[t].open /\ Valid(page[t]) =>
        Clamped(AppliedSettings(page[t].settings)) = page[t].settings

\* No edit is lost on the way to flash, but for secrets on an error page.
EditsSurvive == RetryForgetsOnlySecrets /\ RefreshIsTaken
=============================================================================
