------------------------------- MODULE Ingest -------------------------------
(***************************************************************************)
(* The webhooks (routers/webhooks.py) over the incidents table and the cache *)
(* in front of it: which deliveries of the four alerting tools become an     *)
(* incident, under which id, what a delivery that was answered 201 can rely   *)
(* on while others repeat it or collide with its id, and what the worker and  *)
(* DELETE do to the incident then.  A delivery that is refused or ignored     *)
(* changes nothing; the sender may repeat any delivery at any time.          *)
(***************************************************************************)
EXTENDS IncidentCache

CONSTANTS
    RawId,       \* ids of alerts, as the tools send them
    Cut,         \* Cut[t][x]: t's prefix, and the first eight characters of x in capitals
    Delivery,    \* the requests of the tools, which are writers
    Sent,        \* Sent[d]: what the tool sent with d
    Triage,      \* what a new incident says
    SecretSet    \* is settings.webhook_secret set?

Tool == {"generic", "pagerduty", "opsgenie", "alertmanager"}

\* A request: the endpoint, its signature, whether the body has the endpoint's shape,
\* what it reports, whether its severity is one of models.py, and the alerts it is about.
Request == [to : Tool, signature : {"none", "wrong", "right"}, wellformed : BOOLEAN,
            event : {"opened", "other"}, severity : {"known", "unknown"},
            alerts : Seq(RawId \union Incident)]

ASSUME CutAssumption == Cut \in [Tool \ {"generic"} -> [RawId -> STRING]]
ASSUME DeliveryAssumption ==
    /\ Delivery \subseteq Writer
    /\ Sent \in [Delivery -> Request]
    /\ \A d \in Delivery : Sent[d].to # "alertmanager" => Len(Sent[d].alerts) = 1
ASSUME TriageAssumption == Triage \in Content /\ SecretSet \in BOOLEAN

VARIABLES
    origin,      \* history: the delivery that created the present row of an id, if one did
    promised     \* history: deliveries answered 201 whose incident is not deleted since

ingestVars == <<origin, promised>>
ivars == <<vars, ingestVars>>

IngestTypeOK ==
    /\ TypeOK
    /\ origin \in [Incident -> SUBSET Delivery]
    /\ promised \in SUBSET Delivery

IngestInit ==
    /\ Init
    /\ origin = [i \in Incident |-> {}]
    /\ promised = {}

-----------------------------------------------------------------------------
(* What an endpoint makes of a request: the id to insert, if any *)

\* _require_signature: 403 without a signature, and with a wrong one.
Signed(r) == SecretSet => r.signature = "right"

\* The body's id as it is.  A severity that models.py does not list makes Incident()
\* raise, outside of the try: 500.
GenericId(r) == IF r.severity = "known" THEN {Head(r.alerts)} ELSE {}

\* Events other than incident.triggered are ignored; the severity as for generic.
PagerDutyId(r) ==
    IF r.event = "opened" /\ r.severity = "known" THEN {Cut["pagerduty"][Head(r.alerts)]} ELSE {}

\* Actions other than Create are ignored; every priority is mapped to a severity.
OpsGenieId(r) == IF r.event = "opened" THEN {Cut["opsgenie"][Head(r.alerts)]} ELSE {}

\* What is not firing is ignored, and of what is firing all but the first alert.
AlertmanagerId(r) ==
    IF r.event = "opened" /\ r.alerts # <<>> THEN {Cut["alertmanager"][Head(r.alerts)]} ELSE {}

\* 403 and 422 first.
Creates(d) ==
    LET r == Sent[d] IN
    IF ~Signed(r) \/ ~r.wellformed THEN {}
    ELSE CASE r.to = "generic" -> GenericId(r)
           [] r.to = "pagerduty" -> PagerDutyId(r)
           [] r.to = "opsgenie" -> OpsGenieId(r)
           [] r.to = "alertmanager" -> AlertmanagerId(r)

ASSUME IdAssumption == \A d \in Delivery : Creates(d) \subseteq Incident

-----------------------------------------------------------------------------

\* Mutant of Deliver: the row is merged and not added, so that a taken id is no
\* conflict.
DeliverMerges(d) ==
    \E i \in Creates(d) :
        /\ todo[d] = <<>>
        /\ db' = [db EXCEPT ![i] = Triage]
        /\ todo' = [todo EXCEPT ![d] = <<{All}>>]
        /\ origin' = [origin EXCEPT ![i] = {d}]
        /\ UNCHANGED <<cache, reader, history, promised>>

\* create_incident commits the row.  When the id is taken the commit raises: 409.
Deliver(d) ==
    \E i \in Creates(d) :
        /\ Create(d, i, Triage)
        /\ origin' = [origin EXCEPT ![i] = {d}]
        /\ UNCHANGED promised

\* The deliveries among D whose incident is still there.
Standing(D) == {d \in D : \E i \in Creates(d) : origin[i] = {d}}

\* Mutant of Accept: it is the incident's own key that is invalidated.
AcceptForgetsList(d) ==
    /\ todo[d] # <<>>
    /\ Drop(Creates(d))
    /\ todo' = [todo EXCEPT ![d] = Tail(@)]
    /\ promised' = promised \union Standing({d})
    /\ UNCHANGED <<db, reader, origin>>

\* cache_delete, successful or not, and the answer 201.
Accept(d) ==
    /\ Invalidate(d) \/ InvalidateFails(d)
    /\ promised' = promised \union Standing({d})
    /\ UNCHANGED origin

\* The audit commit of create_incident raises, and the answer is 409 although the
\* incident is there now; or the process is lost.
Orphan(d) ==
    /\ Abandon(d)
    /\ UNCHANGED ingestVars

\* The worker.
UpdateRow(w) ==
    /\ \E i \in Incident, v \in Content : Update(w, i, v)
    /\ UNCHANGED ingestVars

DeleteRow(w) ==
    \E i \in Incident :
        /\ Delete(w, i)
        /\ origin' = [origin EXCEPT ![i] = {}]
        /\ promised' = {d \in promised : i \notin Creates(d)}

FinishWrite(w) ==
    /\ Finish(w)
    /\ UNCHANGED ingestVars

Startup ==
    /\ \E i \in Incident, v \in Content : Seed(i, v)
    /\ UNCHANGED ingestVars

Get(c) ==
    /\ Read(c) \/ \E k \in Key : Miss(c, k)
    /\ UNCHANGED ingestVars

Forget ==
    /\ \E k \in Key : Expire(k)
    /\ UNCHANGED ingestVars

IngestNext ==
    \/ \E d \in Delivery : Deliver(d) \/ Accept(d) \/ Orphan(d)
    \/ \E w \in Writer \ Delivery : UpdateRow(w) \/ DeleteRow(w) \/ FinishWrite(w)
    \/ \E c \in Reader : Get(c)
    \/ Startup
    \/ Forget

IngestSpec == IngestInit /\ [][IngestNext]_ivars

\* A started request goes on, and Redis expires what it holds.
IngestFairSpec ==
    /\ IngestSpec
    /\ \A c \in Reader : WF_ivars(Read(c) /\ UNCHANGED ingestVars)
    /\ \A d \in Delivery : WF_ivars(Accept(d) \/ Orphan(d))
    /\ \A w \in Writer \ Delivery : WF_ivars(FinishWrite(w))
    /\ \A k \in Key : WF_ivars(Expire(k) /\ UNCHANGED ingestVars)

-----------------------------------------------------------------------------
(* Properties *)

\* A delivery that was answered 201 has made an incident of its own, and until
\* somebody deletes it no other delivery takes it over: neither the same alert sent
\* again, nor another one whose id begins with the same eight characters.
CreatedIsKept ==
    \A d \in promised : \E i \in Creates(d) : db[i] # Absent /\ origin[i] = {d}

\* From the answer 201 on GET /incidents lists the incident, unless the invalidation
\* was lost or a read that was overtaken by the creation filled the cache.
ListedOnceCreated ==
    \A d \in promised : \A i \in Creates(d) :
        \/ cache[All] = NoEntry
        \/ cache[All][i] # Absent
        \/ All \in late \union lost

=============================================================================
