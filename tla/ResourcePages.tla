---------------------------- MODULE ResourcePages ----------------------------
(***************************************************************************)
(* One browser tab of the tenant dashboard: the list page and the detail   *)
(* page of a kind, their fetches (hooks/k8s.ts), the permission that shows *)
(* the Create button (hooks/permissions.ts), the editor's draft and save,  *)
(* and the entity whose namespace the pages are about                      *)
(* (hooks/entityNamespace.ts).  Others change the resources meanwhile, and *)
(* every answer takes its time.                                            *)
(*                                                                         *)
(* The resources all have one name, which each namespace may hold: a       *)
(* detail page stays where it is when another entity is chosen.  A fetch   *)
(* that is cancelled goes on, but its answer is dropped: only the fetches  *)
(* whose answers count are kept.                                           *)
(***************************************************************************)
EXTENDS SpecEditor, Naturals

CONSTANTS
    Kinds,          \* the kinds to consider; each behaviour is about one
    Entities,       \* the namespaces of the entities
    Fallback,       \* DEFAULT_NAMESPACE
    Home,           \* the namespace that holds the Entity resources themselves
    Groups,         \* the entities that the user's groups may name
    Labelled,       \* the entities with the label hybridsovereign.redhat/entity
    Rights,         \* the namespaces in which the user may create
    Changing,       \* bound: the fields that the user and others change
    MaxUser,        \* bound: what the user does
    MaxOthers,      \* bound: changes by others
    MaxMishaps      \* bound: requests that fail

ASSUME PagesAssumption ==
    /\ Kinds \subseteq EditorKinds
    /\ Fallback \in Entities /\ Home \notin Entities /\ "none" \notin Entities \cup {Home}
    /\ MaxUser \in Nat /\ MaxOthers \in Nat /\ MaxMishaps \in Nat

VARIABLES
    kind,       \* the kind of the pages
    stored,     \* namespace -> the resource in the API server, and its revision
    choice,     \* the namespace shown, whether it was picked, sessionStorage
    page,       \* "list" or "detail"
    gets,       \* the fetches of the page whose answers count
    view,       \* what the page shows: item, loading, error
    draft,      \* the editor's draft and the fields touched in it
    perm,       \* whether the Create button shows, and what was asked last
    saves,      \* the saves under way
    used,       \* how much of each bound is used
    pick        \* what the user has picked last, which the pages do not keep

vars == <<kind, stored, choice, page, gets, view, draft, perm, saves, used, pick>>

\* The namespaces the pages may be about.
Namespaces == Entities \cup {Home}

NoSpec == [x \in Fields[kind] |-> "none"]
Absent(rev) == [there |-> FALSE, rev |-> rev, spec |-> NoSpec]
Present(rev, spec) == [there |-> TRUE, rev |-> rev, spec |-> spec]
Nothing == [ns |-> "none", res |-> Absent(0)]
NoPerm == [allowed |-> FALSE, ns |-> "none", asking |-> FALSE]
NoDraft == [spec |-> NoSpec, touched |-> {}]

Bounded(what, bound) == used[what] < bound /\ used' = [used EXCEPT ![what] = @ + 1]
User == Bounded("user", MaxUser)
Mishap == Bounded("mishaps", MaxMishaps)

Get(n) == [ns |-> n, since |-> stored[n].rev, at |-> "sent", res |-> Absent(0)]

Init ==
    /\ kind \in Kinds
    /\ stored \in [Namespaces -> {Absent(0), Present(1, [x \in Fields[kind] |-> "v1"])}]
    /\ stored[Fallback].there /\ ~stored[Home].there
    /\ choice = [ns |-> Fallback, picked |-> FALSE, kept |-> "none",
                 listed |-> FALSE, seen |-> {}]
    /\ page = "list"
    /\ gets = {Get(Fallback)}
    /\ view = [item |-> Nothing, loading |-> TRUE, error |-> FALSE,
               since |-> stored[Fallback].rev]
    /\ draft = NoDraft
    /\ perm = [allowed |-> FALSE, ns |-> Fallback, asking |-> TRUE]
    /\ saves = {}
    /\ used = [user |-> 0, others |-> 0, mishaps |-> 0]
    /\ pick = "none"

-----------------------------------------------------------------------------
(* The hooks. *)

\* Mutant: the answers of the earlier fetches count too.
PendingAll(get) == gets \cup {get}
\* The cleanup of the effect cancels the fetch before.
Pending(get) == {get}

\* The effect of useK8sResourceList and useK8sResource: it runs for a new URL
\* and for every refresh.  What is shown stays until the answer.
Fetches(n) ==
    /\ gets' = Pending(Get(n))
    /\ view' = [view EXCEPT !.loading = TRUE, !.since = stored[n].rev]

\* When its page is left, a request goes on, and only the answer of a delete
\* still counts: its handler navigates to the list, wherever the tab is.
Left(s) ==
    [s EXCEPT !.heard = IF s.what = "delete" /\ s.heard # "none" THEN "tab" ELSE "none"]
Orphaned(S) == {s \in {Left(t) : t \in S} : s.heard # "none" \/ s.at # "done"}
\* When the tab is reloaded, no answer counts.
Deserted(S) == {[s EXCEPT !.heard = "none"] : s \in {t \in S : t.at # "done"}}

\* The page is mounted anew and shows nothing yet.
Mounts(p, n) ==
    /\ page' = p
    /\ gets' = {Get(n)}
    /\ view' = [item |-> Nothing, loading |-> TRUE, error |-> FALSE,
                since |-> stored[n].rev]
    /\ draft' = NoDraft

\* Mutant: the checks of a new namespace are not asked.
AsksAsBefore(allowed, n) ==
    perm' = [allowed |-> allowed, ns |-> IF perm.ns = "none" THEN n ELSE perm.ns,
             asking |-> TRUE]
\* usePermissions: its effect depends on the array of checks, which useCanI
\* makes anew whenever the list page renders, so every rendering asks again,
\* and what was allowed before shows until the answer.
Asks(allowed, n) == perm' = [allowed |-> allowed, ns |-> n, asking |-> TRUE]
Gated(p, allowed, n) == IF p = "list" THEN Asks(allowed, n) ELSE perm' = NoPerm
Renders == Gated(page, perm.allowed, perm.ns)

-----------------------------------------------------------------------------
(* The answers to the fetches. *)

Read(get) ==
    /\ get \in gets /\ get.at = "sent"
    /\ gets' = (gets \ {get}) \cup {[get EXCEPT !.at = "read", !.res = stored[get.ns]]}
    /\ UNCHANGED <<kind, used, stored, choice, page, view, draft, perm, saves, pick>>

\* Mutant: an error leaves the page loading.
StillLoads == TRUE
StopsLoading == FALSE

Fails(get) ==
    /\ gets' = gets \ {get}
    /\ view' = [view EXCEPT !.error = TRUE, !.loading = StopsLoading]
    /\ Renders
    /\ UNCHANGED <<kind, stored, choice, page, draft, saves, pick>>

FetchFails(get) == get \in gets /\ Mishap /\ Fails(get)

\* Mutant: a draft that is there stays when a new item comes.
DraftStays(res) ==
    IF page = "detail" /\ draft = NoDraft THEN [spec |-> res.spec, touched |-> {}] ELSE draft
DraftOf(res) == IF page = "detail" THEN [spec |-> res.spec, touched |-> {}] ELSE NoDraft

\* setItems and setResource.  A resource that is not there fails the fetch of
\* a detail page; a new item resets the draft.
Arrives(get) ==
    /\ get \in gets /\ get.at = "read"
    /\ UNCHANGED used
    /\ IF page = "detail" /\ ~get.res.there THEN Fails(get)
       ELSE /\ gets' = gets \ {get}
            /\ view' = [view EXCEPT !.item = [ns |-> get.ns, res |-> get.res],
                                    !.error = FALSE, !.loading = FALSE]
            /\ draft' = DraftOf(get.res)
            /\ Renders
            /\ UNCHANGED <<kind, stored, choice, page, saves, pick>>

\* The answer to can-i; a failure counts as a no.
CanI(answer) ==
    /\ page = "list"
    /\ Asks(answer, perm.ns)
    /\ UNCHANGED <<kind, stored, choice, page, gets, view, draft, saves, pick>>

fetchCanIProxy == perm.asking /\ UNCHANGED used /\ CanI(perm.ns \in Rights)
CanIFails == perm.asking /\ Mishap /\ CanI(FALSE)

-----------------------------------------------------------------------------
(* The entity. *)

\* The page shows the namespace n from now on.
Shows(n) ==
    IF n = choice.ns
    THEN UNCHANGED <<page, gets, view, draft, saves>> /\ Renders
    ELSE /\ Fetches(n)
         /\ Gated(page, perm.allowed, n)
         /\ UNCHANGED <<page, draft, saves>>

\* The namespaces to choose from when the entities are listed: those the user's
\* groups name, or else the only one, or else, for an entity with the label, the
\* namespace of its resource.
\* As a mutant of Detected: what was picked does not matter.
Candidates(seen, named) ==
    IF seen \cap named # {} THEN seen \cap named
    ELSE IF Cardinality(seen) = 1 THEN seen
    ELSE IF seen \cap Labelled # {} THEN {Home} ELSE {}
Detected(seen, named) == IF choice.picked THEN {} ELSE Candidates(seen, named)

\* What is detected is kept in sessionStorage as what is picked is.  A list
\* that fails counts as empty.
EntitiesArrive(seen, named) ==
    /\ ~choice.listed
    /\ UNCHANGED <<kind, stored, used, pick>>
    /\ \/ /\ Detected(seen, named) = {}
          /\ choice' = [choice EXCEPT !.listed = TRUE, !.seen = seen]
          /\ Shows(choice.ns)
       \/ \E n \in Detected(seen, named) :
             /\ choice' = [choice EXCEPT !.listed = TRUE, !.seen = seen, !.ns = n, !.kept = n]
             /\ Shows(n)

\* The switcher offers the entities listed.
selectEntity(n) ==
    /\ n \in choice.seen
    /\ User
    /\ choice' = [choice EXCEPT !.ns = n, !.picked = TRUE, !.kept = n]
    /\ pick' = n
    /\ UNCHANGED <<kind, stored>>
    /\ Shows(n)

\* The browser reloads: what sessionStorage holds counts as picked.
Reload ==
    LET n == IF choice.kept = "none" THEN Fallback ELSE choice.kept
    IN  /\ User
        /\ choice' = [ns |-> n, picked |-> choice.kept # "none", kept |-> choice.kept,
                      listed |-> FALSE, seen |-> {}]
        /\ UNCHANGED <<kind, stored, pick>>
        /\ Mounts(page, n)
        /\ saves' = Deserted(saves)
        /\ Gated(page, FALSE, n)

-----------------------------------------------------------------------------
(* The pages. *)

\* A link of the list page, or back.
Navigates(p) ==
    /\ Mounts(p, choice.ns)
    /\ Gated(p, FALSE, choice.ns)
    /\ UNCHANGED <<kind, stored, choice, pick>>

OpenDetail ==
    /\ page = "list" /\ view.item.res.there
    /\ User
    /\ Navigates("detail")
    /\ saves' = Orphaned(saves)

Back ==
    /\ page = "detail"
    /\ User
    /\ Navigates("list")
    /\ saves' = Orphaned(saves)

Refresh ==
    /\ page = "detail" => view.item # Nothing
    /\ User
    /\ Fetches(choice.ns)
    /\ Renders
    /\ UNCHANGED <<kind, stored, choice, page, draft, saves, pick>>

\* The page renders its buttons and its editor once it has an item.
Ready == page = "detail" /\ view.item # Nothing
Idle(what) == \A s \in saves : s.heard = "page" => s.what # what
\* A request, and for a save what the user has entered and on which resource;
\* got is what the server's handler reads first.  The number tells requests apart.
Request(what, spec, entry, base) ==
    [what |-> what, ns |-> choice.ns, spec |-> spec, entry |-> entry, base |-> base,
     nr |-> used.user, heard |-> "page", at |-> "sent", got |-> Absent(0), ok |-> FALSE]

Submits(request) ==
    /\ Ready /\ Idle(request.what)
    /\ User
    /\ saves' = saves \cup {request}
    /\ UNCHANGED <<kind, stored, choice, page, gets, view, draft, perm, pick>>

\* handleDelete and save send the name of the page to the namespace of the page.
handleDelete == Submits(Request("delete", NoSpec, NoDraft, Nothing))
\* Reconcile now: the annotation is set, the spec stays.  The ten seconds for
\* which the button stays disabled may be over at any time.
handleReconcile == Submits(Request("reconcile", NoSpec, NoDraft, Nothing))

\* Mutant: the save sends what the page shows instead of the draft.
SentShown == view.item.res.spec
Sent == draft.spec
save == Submits(Request("save", Sent, draft, view.item))

edit(x, v) ==
    /\ Ready
    /\ x \in Open(kind, draft.spec) \cap Changing /\ v \in Entries(kind, x) /\ v # draft.spec[x]
    /\ User
    /\ draft' = [spec |-> setField(draft.spec, x, v), touched |-> draft.touched \cup {x}]
    /\ UNCHANGED <<kind, stored, choice, page, gets, view, perm, saves, pick>>

-----------------------------------------------------------------------------
(* The server's handlers, and their answers. *)

\* The handler of a kind that is put reads the resource and then sends a PUT
\* with the version read; the others send one request.
ReadsFirst(s) == s.what = "save" /\ UPDATE_METHOD(kind) = "put"
\* What the save is made of.
Current(s) == IF ReadsFirst(s) THEN s.got ELSE stored[s.ns]
Saved(s) == SavedAs(kind, s.spec, Current(s).spec)

\* Nobody waits for an answer that does not count.
Concludes(s, ok) ==
    saves' = (saves \ {s}) \cup
                 {a \in {[s EXCEPT !.at = "done", !.ok = ok]} : a.heard # "none"}

HandlerReads(s) ==
    /\ s \in saves /\ s.at = "sent" /\ ReadsFirst(s)
    /\ IF stored[s.ns].there /\ SavedAs(kind, s.spec, stored[s.ns].spec).ok
       THEN saves' = (saves \ {s}) \cup {[s EXCEPT !.at = "read", !.got = stored[s.ns]]}
       ELSE Concludes(s, FALSE)
    /\ UNCHANGED <<kind, used, stored, choice, page, gets, view, draft, perm, pick>>

\* What the API server stores for a request.
Written(s) ==
    LET cur == stored[s.ns]
    IN  CASE s.what = "delete" -> Absent(cur.rev + 1)
          [] s.what = "reconcile" -> Present(cur.rev + 1, cur.spec)
          [] s.what = "save" -> IF Saved(s).spec = cur.spec THEN cur
                                ELSE Present(cur.rev + 1, Saved(s).spec)

Accepted(s) ==
    /\ stored[s.ns].there
    /\ ReadsFirst(s) => s.got.rev = stored[s.ns].rev
    /\ s.what = "save" => Saved(s).ok

CarriedOut(s) ==
    /\ s \in saves /\ s.at = IF ReadsFirst(s) THEN "read" ELSE "sent"
    /\ stored' = IF Accepted(s) THEN [stored EXCEPT ![s.ns] = Written(s)] ELSE stored
    /\ Concludes(s, Accepted(s))
    /\ UNCHANGED <<kind, used, choice, page, gets, view, draft, perm, pick>>

\* After a delete the tab goes to the list, or just renders it again; what
\* else went well refreshes the page, and an error is shown on the page.
Answered(s) ==
    /\ s \in saves /\ s.at = "done"
    /\ UNCHANGED used
    /\ \/ /\ s.ok /\ s.what = "delete" /\ page = "detail"
          /\ Navigates("list")
          /\ saves' = Orphaned(saves \ {s})
       \/ /\ s.ok /\ s.what = "delete" /\ page = "list"
          /\ Renders
          /\ saves' = saves \ {s}
          /\ UNCHANGED <<kind, stored, choice, page, gets, view, draft, pick>>
       \/ /\ s.ok /\ s.what # "delete"
          /\ Fetches(choice.ns)
          /\ saves' = saves \ {s}
          /\ UNCHANGED <<kind, stored, choice, page, draft, perm, pick>>
       \/ /\ ~s.ok
          /\ saves' = saves \ {s}
          /\ UNCHANGED <<kind, stored, choice, page, gets, view, draft, perm, pick>>

\* The answer is lost; the request may have been carried out, or may be later.
RequestFails(s) ==
    /\ s \in saves
    /\ Mishap
    /\ \/ saves' = saves \ {s}
       \/ s.at # "done" /\ saves' = (saves \ {s}) \cup {[s EXCEPT !.heard = "none"]}
    /\ UNCHANGED <<kind, stored, choice, page, gets, view, draft, perm, pick>>

-----------------------------------------------------------------------------

\* Others change a field of a resource or delete it.
Others(n) ==
    /\ Bounded("others", MaxOthers)
    /\ stored[n].there
    /\ stored' \in {[stored EXCEPT ![n] = Absent(@.rev + 1)]} \cup
                  {[stored EXCEPT ![n] = Present(@.rev + 1, [@.spec EXCEPT ![x] = "v2"])] :
                      x \in Fields[kind] \cap Changing}
    /\ UNCHANGED <<kind, choice, page, gets, view, draft, perm, saves, pick>>

Next ==
    \/ \E get \in gets : Read(get) \/ Arrives(get) \/ FetchFails(get)
    \/ fetchCanIProxy \/ CanIFails
    \/ \E s \in saves : HandlerReads(s) \/ CarriedOut(s) \/ Answered(s) \/ RequestFails(s)
    \/ \E seen \in SUBSET Entities : \E named \in SUBSET Groups : EntitiesArrive(seen, named)
    \/ \E n \in Namespaces : selectEntity(n) \/ Others(n)
    \/ Reload \/ OpenDetail \/ Back \/ Refresh \/ handleDelete \/ handleReconcile \/ save
    \/ \E x \in DOMAIN Editable(kind) : \E v \in Entries(kind, x) : edit(x, v)

Spec == Init /\ [][Next]_vars

\* The API server answers, and the browser takes its answers in.
Fairness ==
    /\ WF_vars(\E get \in gets : Read(get))
    /\ WF_vars(\E get \in gets : Arrives(get))
    /\ WF_vars(fetchCanIProxy)
    /\ WF_vars(\E s \in saves : HandlerReads(s) \/ CarriedOut(s))
    /\ WF_vars(\E s \in saves : Answered(s))

FairSpec == Spec /\ Fairness

-----------------------------------------------------------------------------
(* Properties. *)

IsResource(r) == r \in [there : BOOLEAN, rev : Nat, spec : [Fields[kind] -> DraftValues]]

\* Type invariant: one fetch at most counts for a page, and the drafts and
\* requests have the fields of the kind.
TypeOK ==
    /\ \A n \in Namespaces : IsResource(stored[n])
    /\ choice.ns \in Namespaces /\ choice.kept \in Namespaces \cup {"none"}
    /\ pick \in Entities \cup {"none"}
    /\ page \in {"list", "detail"}
    /\ Cardinality(gets) <= 1
    /\ view.item.ns \in Namespaces \cup {"none"} /\ IsResource(view.item.res)
    /\ draft.spec \in [Fields[kind] -> DraftValues]
    /\ draft.touched \subseteq DOMAIN Editable(kind)
    /\ \A s \in saves : s.spec \in [Fields[kind] -> DraftValues]
    /\ page = "list" => draft = NoDraft

\* A page that neither loads nor reports an error shows the resource of the
\* namespace chosen, as it was when the page last asked for it or later, in
\* whatever order the answers come and whatever the user has switched to and
\* fro (the cancelled fetches of useK8sResourceList and useK8sResource, and
\* the refresh after a save).
SettledIsFresh ==
    ~view.loading /\ ~view.error =>
        view.item.ns = choice.ns /\ view.item.res.rev >= view.since

\* The save s is carried out.
SaveDone(s) == CarriedOut(s) /\ Accepted(s) /\ s.what = "save"
\* And it is carried out on the resource that its draft copies.
SavedOnItsBase(s) == SaveDone(s) /\ s.base = [ns |-> s.ns, res |-> stored[s.ns]]

\* A save that is answered with success has stored what was entered, whatever
\* others have stored since the page showed the resource, in every field but
\* those that the kind's route cannot empty or does not know
\* (GenericSpecEditor, the update handlers).
EditTakesEffect ==
    [][\A s \in saves : SaveDone(s) =>
          \A x \in s.entry.touched \ (CannotEmpty(kind) \cup Ignored(kind)) :
              Same(stored'[s.ns].spec[x], s.entry.spec[x])]_vars

\* And it has changed nothing that the user did not touch since the page
\* showed the resource, unless others have changed it meanwhile.
RestIsKept ==
    [][\A s \in saves : SavedOnItsBase(s) =>
          \A x \in Fields[kind] \ (s.entry.touched \cup Ignored(kind)) :
              Same(stored'[s.ns].spec[x], stored[s.ns].spec[x])]_vars

\* Once the user has picked an entity, the pages are about the one picked last,
\* over every reload and whatever the lists of entities that come late name,
\* although only sessionStorage tells a page that was reloaded what was picked
\* (useEntityNamespace).
PickedStays == pick # "none" => choice.ns = pick

\* When the user rests, the page stops loading (the fetch effects).
PageSettles == <>[]~view.loading

\* And the Create button shows exactly where the user may create
\* (usePermissions, useCanI).
ButtonSettles == <>[](page = "list" => perm.allowed = (choice.ns \in Rights))

\* "Pages fetch K8s only on navigate/refresh" (tenant App.tsx:76).
RestsWithoutUser == <>[](page = "list" => ~perm.asking)
=============================================================================
