------------------------------ MODULE Session ------------------------------
(***************************************************************************)
(* Who a tab thinks is signed in.  The provider around every page keeps the *)
(* user, the browser the cookie, and all tabs of the browser share it.  A   *)
(* tab asks who it is when it is loaded, and changes its mind when a login, *)
(* a logout, a setup or a profile edit is answered.  Answers come in any    *)
(* order, after pages were left, and may be lost; the cookie changes when   *)
(* an answer comes.  The home page and the layout of the dashboard send     *)
(* the tab on.                                                              *)
(***************************************************************************)
EXTENDS Integers, Sequences, SequencesExt

CONSTANTS
    Tabs,     \* tabs of one browser
    MaxCalls, \* calls outstanding at a time
    MaxActs,  \* what the user does
    Names,    \* what the administrator may be called
    First,    \* the pages the tabs were loaded on
    None

VARIABLES
    complete, \* setup_status.is_complete
    profile,  \* the administrator's name in admin_users
    jar,      \* the browser holds a token that is not expired
    tab,      \* [page, past, user, loading, due, doubt]
    calls,    \* id -> call, None when unused
    acts      \* how much the user did

vars == <<complete, profile, jar, tab, calls, acts>>

Dashboard == {"overview", "settings"}
Pages == Dashboard \cup {"home", "login", "setup"}
Ids == 1..MaxCalls

\* What a form waits for; what needs a token; what tells a tab who it is.
Forms == {"login", "setup", "refresh", "profile"}
Signed == {"me", "refresh", "profile"}
Telling == {"me", "refresh", "login", "profile"}
\* token: the request carried one.  here: the component that asked is mounted.  fresh:
\* history, the profile and the cookie did not change under it.
Call(t, kind, arg) == [tab |-> t, kind |-> kind, arg |-> arg, token |-> jar /\ kind \in Signed,
                       res |-> "asked", here |-> TRUE, fresh |-> TRUE]
Calls == [tab : Tabs, kind : Forms \cup {"me", "status", "logout"}, arg : Names \cup {None},
          token : BOOLEAN, here : BOOLEAN, fresh : BOOLEAN,
          res : Names \cup {None, "asked", "done", "complete", "incomplete"}]

ASSUME SessionAssumption ==
    /\ MaxCalls \in Nat /\ MaxActs \in Nat /\ Tabs \subseteq Ids /\ First \in [Tabs -> Pages]
    /\ None \notin Names /\ "asked" \notin Names /\ None \notin Calls \cup Tabs

\* past: the pages Back goes to.  due: the effect of the home page is to run.  doubt:
\* history, the cookie or the profile changed and this tab was not told.
Loaded(p) == [page |-> p, past |-> <<>>, user |-> None, loading |-> TRUE, due |-> p = "home",
              doubt |-> FALSE]

Init ==
    /\ complete \in BOOLEAN /\ jar \in {FALSE, complete}
    /\ IF complete THEN profile \in Names ELSE profile = None
    /\ tab = [t \in Tabs |-> Loaded(First[t])]
    /\ calls = [i \in Ids |-> IF i \in Tabs THEN Call(i, "me", None) ELSE None]
    /\ acts = 0

Outstanding == {i \in Ids : calls[i] # None}
Of(t) == {i \in Outstanding : calls[i].tab = t}
Free == Ids \ Outstanding
FreeSlot == CHOOSE i \in Free : TRUE
Without(i) == [calls EXCEPT ![i] = None]
Asking(c) == [calls EXCEPT ![FreeSlot] = c]

-----------------------------------------------------------------------------
(* A tab renders. *)

Mounted(T) == <<T.page, T.page \in Dashboard => T.user # None>>
Shown(T) == T.page \in Dashboard /\ ~T.loading /\ T.user # None

Replace(T, p) == [T EXCEPT !.page = p]
Push(T, p) == [T EXCEPT !.page = p, !.past = IF T.page = p THEN @ ELSE Append(@, T.page)]
SetUser(T, u, fresh) ==
    [T EXCEPT !.user = u, !.doubt = u # None /\ ~fresh, !.due = @ \/ u # None]

\* The home page looks again when it is mounted, or is given another user.
LooksAgain(old, new) ==
    \/ old.page # "home"
    \/ old.loading # new.loading
    \/ old.user # new.user /\ new.user = None
Rendered(old, T) == [T EXCEPT !.due = T.page = "home" /\ (@ \/ LooksAgain(old, T))]
\* A call whose page is gone comes back to nobody's form.
Unmounted(old, T, t, cs) ==
    [i \in Ids |-> IF /\ cs[i] # None /\ cs[i].tab = t /\ cs[i].kind \in Forms
                      /\ Mounted(T) # Mounted(old)
                   THEN [cs[i] EXCEPT !.here = FALSE] ELSE cs[i]]
\* Tab t becomes T, and cs are the calls.
Renders(t, T, cs) ==
    /\ tab' = [tab EXCEPT ![t] = Rendered(@, T)]
    /\ calls' = Unmounted(tab[t], T, t, cs)

\* The tabs when those that show a user are not told of a change, but for t.
Doubted(tabs, t) ==
    [u \in Tabs |-> [tabs[u] EXCEPT !.doubt = @ \/ (u # t /\ tabs[u].user # None)]]

-----------------------------------------------------------------------------
(* The user. *)

Act == acts < MaxActs /\ acts' = acts + 1 /\ UNCHANGED <<complete, profile, jar>>
Submits(t, kind, arg) ==
    /\ Free # {}
    /\ \A i \in Of(t) : ~(calls[i].here /\ calls[i].kind \in {kind, "refresh"})
    /\ Renders(t, tab[t], Asking(Call(t, kind, arg)))
    /\ Act

LoginSubmit(t) == tab[t].page = "login" /\ Submits(t, "login", None)
SetupSubmit(t, name) == tab[t].page = "setup" /\ Submits(t, "setup", name)
HandleProfileSave(t, name) ==
    Shown(tab[t]) /\ tab[t].page = "settings" /\ Submits(t, "profile", name)

\* The logout is not waited for.
SignOut(t) ==
    /\ Shown(tab[t]) /\ Free # {}
    /\ Renders(t, Replace(tab[t], "login"), Asking(Call(t, "logout", None)))
    /\ Act
Link(t, p) ==
    /\ Shown(tab[t]) /\ tab[t].page # p
    /\ Renders(t, Push(tab[t], p), calls) /\ Act
Back(t) ==
    LET past == tab[t].past IN
    /\ past # <<>>
    /\ Renders(t, [tab[t] EXCEPT !.page = Last(past), !.past = Front(past)], calls)
    /\ Act
\* An address typed, a page loaded again, or the way back to one: what the tab was, and
\* its calls, are gone.
Open(t, p) ==
    LET kept == [i \in Ids |-> IF i \in Of(t) THEN None ELSE calls[i]]
        i == CHOOSE j \in Ids : kept[j] = None IN
    /\ \E j \in Ids : kept[j] = None
    /\ tab' = [tab EXCEPT ![t] = Loaded(p)]
    /\ calls' = [kept EXCEPT ![i] = Call(t, "me", None)]
    /\ Act

-----------------------------------------------------------------------------
(* Effects. *)

HomeEffect(t) ==
    /\ tab[t].page = "home" /\ tab[t].due /\ ~tab[t].loading /\ Free # {}
    /\ calls' = Asking(Call(t, "status", tab[t].user))
    /\ tab' = [tab EXCEPT ![t].due = FALSE]
    /\ UNCHANGED <<complete, profile, jar, acts>>
LayoutEffect(t) ==
    /\ tab[t].page \in Dashboard /\ ~tab[t].loading /\ tab[t].user = None
    /\ Renders(t, Replace(tab[t], "login"), calls)
    /\ UNCHANGED <<complete, profile, jar, acts>>

-----------------------------------------------------------------------------
(* The backend. *)

Serves(i, kind) == i \in Outstanding /\ calls[i].kind = kind /\ calls[i].res = "asked"
Gives(i, res) == calls' = [calls EXCEPT ![i].res = res]
\* The name is stored: answers that were given before it are out of date, and so are the
\* tabs but the one that asked.
Stores(i, name) ==
    /\ profile' = name
    /\ calls' = [j \in Ids |->
        IF j = i THEN [calls[i] EXCEPT !.res = "done"]
        ELSE IF calls[j] # None /\ calls[j].kind \in Telling /\ calls[j].res # "asked"
             THEN [calls[j] EXCEPT !.fresh = FALSE]
        ELSE calls[j]]
    /\ tab' = Doubted(tab, calls[i].tab)

GetMe(i) ==
    /\ Serves(i, "me") \/ Serves(i, "refresh")
    /\ calls[i].token /\ Gives(i, profile)
    /\ UNCHANGED <<complete, profile, jar, tab, acts>>
GetSetupStatus(i) ==
    /\ Serves(i, "status") /\ Gives(i, IF complete THEN "complete" ELSE "incomplete")
    /\ UNCHANGED <<complete, profile, jar, tab, acts>>
LoginAdmin(i) ==
    /\ Serves(i, "login") /\ complete /\ Gives(i, profile)
    /\ UNCHANGED <<complete, profile, jar, tab, acts>>
LogoutAdmin(i) ==
    /\ Serves(i, "logout") /\ Gives(i, "done")
    /\ UNCHANGED <<complete, profile, jar, tab, acts>>
SetupAdmin(i) ==
    /\ Serves(i, "setup") /\ ~complete
    /\ complete' = TRUE /\ Stores(i, calls[i].arg)
    /\ UNCHANGED <<jar, acts>>
UpdateProfile(i) ==
    /\ Serves(i, "profile") /\ calls[i].token
    /\ Stores(i, calls[i].arg)
    /\ UNCHANGED <<complete, jar, acts>>

Serve(i) == GetMe(i) \/ GetSetupStatus(i) \/ LoginAdmin(i) \/ LogoutAdmin(i)
            \/ SetupAdmin(i) \/ UpdateProfile(i)

-----------------------------------------------------------------------------
(* The answers.  A cookie is taken over before the page reads the answer,   *)
(* and whether or not it can.                                               *)

Answered(i, kind) == i \in Outstanding /\ calls[i].kind = kind /\ calls[i].res # "asked"
Taken(i) ==
    LET kind == calls[i].kind IN
    IF calls[i].res = "asked" THEN jar
    ELSE IF kind \in {"login", "setup"} THEN TRUE
    ELSE IF kind = "logout" THEN FALSE ELSE jar

\* The cookie is gone under the calls that ask who a tab is.
Stale(cs) == [i \in Ids |->
    IF cs[i] # None /\ cs[i].kind \in {"me", "refresh"} THEN [cs[i] EXCEPT !.fresh = FALSE]
    ELSE cs[i]]

\* Call i comes back to its tab, which becomes T; cs are the calls then.
Comes(i, cookie, T, cs) ==
    LET t == calls[i].tab
        gone == jar /\ ~cookie
        tabs == [tab EXCEPT ![t] = Rendered(@, T)]
        left == Unmounted(tab[t], T, t, cs) IN
    /\ jar' = cookie
    /\ tab' = IF gone THEN Doubted(tabs, t) ELSE tabs
    /\ calls' = IF gone THEN Stale(left) ELSE left
    /\ UNCHANGED <<complete, profile, acts>>
Tab(i) == tab[calls[i].tab]

MeAnswered(i) ==
    /\ Answered(i, "me")
    /\ Comes(i, jar, [SetUser(Tab(i), calls[i].res, calls[i].fresh) EXCEPT !.loading = FALSE],
             Without(i))
RefreshAnswered(i) ==
    /\ Answered(i, "refresh")
    /\ Comes(i, jar, Push(SetUser(Tab(i), calls[i].res, calls[i].fresh), "overview"), Without(i))
LoginAnswered(i) ==
    /\ Answered(i, "login")
    /\ Comes(i, TRUE, Push(SetUser(Tab(i), calls[i].res, calls[i].fresh), "overview"), Without(i))
\* The provider is asked who it is, with the new cookie.
SetupAnswered(i) ==
    /\ Answered(i, "setup")
    /\ Comes(i, TRUE, Tab(i),
             [calls EXCEPT ![i] = [Call(@.tab, "refresh", None) EXCEPT !.token = TRUE,
                                                                       !.here = calls[i].here]])

\* Mutant: nobody is made somebody.
UpdateUserAlways(T, name, fresh) == [T EXCEPT !.user = name, !.doubt = @ \/ ~fresh]
UpdateUser(T, name, fresh) ==
    IF T.user = None THEN T
    ELSE [T EXCEPT !.user = name, !.doubt = @ \/ ~fresh, !.due = TRUE]
ProfileAnswered(i) ==
    /\ Answered(i, "profile")
    /\ Comes(i, jar, UpdateUser(Tab(i), calls[i].arg, calls[i].fresh), Without(i))

Home(T, res, user) ==
    Replace(T, IF res = "incomplete" THEN "setup" ELSE IF user # None THEN "overview" ELSE "login")
\* Wherever the tab is by then.
StatusAnswered(i) ==
    /\ Answered(i, "status")
    /\ Comes(i, jar, Home(Tab(i), calls[i].res, calls[i].arg), Without(i))

SignedOut(T) == SetUser(T, None, TRUE)
LogoutAnswered(i) ==
    /\ Answered(i, "logout")
    /\ Comes(i, FALSE, SignedOut(Tab(i)), Without(i))

\* Mutant: who it is not told remains loading.
MeFailedLoading(T) == SignedOut(T)
MeFailed(T) == [SignedOut(T) EXCEPT !.loading = FALSE]
\* The backend refused, the answer was lost, or could not be read.
Throws(i) ==
    LET T == Tab(i) IN
    CASE calls[i].kind = "me" -> MeFailed(T)
      [] calls[i].kind = "refresh" -> Push(SignedOut(T), "overview")
      [] calls[i].kind = "status" -> Replace(T, "login")
      [] calls[i].kind = "logout" -> SignedOut(T)
      [] calls[i].kind = "profile" ->
           [T EXCEPT !.doubt = @ \/ (T.user # None /\ calls[i].res # "asked")]
      [] OTHER -> T
Fails(i) ==
    i \in Outstanding /\ \E cookie \in {jar, Taken(i)} : Comes(i, cookie, Throws(i), Without(i))

Answer(i) ==
    \/ MeAnswered(i) \/ RefreshAnswered(i) \/ LoginAnswered(i) \/ SetupAnswered(i)
    \/ ProfileAnswered(i) \/ StatusAnswered(i) \/ LogoutAnswered(i) \/ Fails(i)

\* A day after it was given.
Expire ==
    /\ jar /\ jar' = FALSE
    /\ tab' = Doubted(tab, None) /\ calls' = Stale(calls)
    /\ UNCHANGED <<complete, profile, acts>>

UserActs(t) ==
    \/ LoginSubmit(t) \/ SignOut(t) \/ Back(t)
    \/ \E name \in Names : SetupSubmit(t, name) \/ HandleProfileSave(t, name)
    \/ \E p \in Dashboard : Link(t, p)
    \/ \E p \in Pages : Open(t, p)

Effects == \E t \in Tabs : HomeEffect(t) \/ LayoutEffect(t)
Traffic == \E i \in Ids : Serve(i) \/ Answer(i)

Next ==
    \/ \E t \in Tabs : UserActs(t)
    \/ Effects \/ Traffic \/ Expire

\* A browser runs the effects of what it rendered; requests end, if not with an answer
\* then with their connection.
Spec == Init /\ [][Next]_vars /\ WF_vars(Effects) /\ WF_vars(Traffic)

-----------------------------------------------------------------------------
(* Properties. *)

SavesProfile(t) == \E i \in Of(t) : calls[i].kind = "profile"
\* A tab that shows a user and was told of all that happened holds the cookie, and the name
\* that is stored unless it is just saving one: after a sign-out that is not waited for, an
\* answer to a question asked before it, a profile saved as the tab signed out, or a login in
\* between (lib/auth.tsx:34-62, layout.tsx:99, settings/page.tsx:33-34).
ShownIsTrue ==
    \A t \in Tabs : tab[t].user # None /\ ~tab[t].doubt =>
        jar /\ (SavesProfile(t) \/ tab[t].user = profile)

Astray(t) == \/ tab[t].page = "home"
             \/ tab[t].page \in Dashboard /\ tab[t].user = None
\* A tab does not stay on the home page, which only turns, or on an empty dashboard, whatever
\* fails or answers late (page.tsx:12-32, layout.tsx:45-57, lib/auth.tsx:34-45).
Settles == \A t \in Tabs : Astray(t) ~> ~Astray(t)
=============================================================================
