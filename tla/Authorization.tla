--------------------------- MODULE Authorization ---------------------------
(***************************************************************************)
(* Who may charge (ocpp-cp/src/lib.rs authorize, auth_cache.rs,            *)
(* local_list.rs): the Local Authorization List the CSMS pushes, the cache *)
(* of its answers, and authorize(), which consults the list, the cache and *)
(* the CSMS in that order, each behind a lock of its own, while handlers   *)
(* on the receive loop replace the list or clear the cache.                *)
(*                                                                         *)
(* Time is a counter.  Any number of tasks may be inside authorize(), for  *)
(* one id tag too: nothing orders their answers and their inserts.         *)
(***************************************************************************)
EXTENDS Naturals, Sequences, FiniteSets

CONSTANTS
    AuthConfigs,     \* the configurations to run
    IdTags,
    AskedTags,       \* bound: the tags that are presented at the station
    Askers,          \* the application's tasks that call authorize()
    TagInfos,        \* the IdTagInfo values the CSMS sends: a status and an expiry
    MaxLength,       \* LocalAuthListMaxLength
    Ttl,             \* config.auth_cache_ttl, in ticks
    MaxTime,         \* bound: the clock
    MaxListUpdates   \* bound: SendLocalList requests

Never == 0                     \* no expiryDate
NoInfo == [status |-> "none", expiry |-> Never]     \* a bare idTag; an absent entry
AuthConfig == [version: {"V16J", "V201"}, listEnabled: BOOLEAN, staleOk: BOOLEAN]

ASSUME AuthAssumption ==
    /\ AuthConfigs \subseteq AuthConfig
    /\ \A i \in TagInfos : i.expiry \in Nat
    /\ AskedTags \subseteq IdTags
    /\ MaxLength \in Nat
    /\ Ttl \in Nat
    /\ MaxTime \in Nat
    /\ MaxListUpdates \in Nat

VARIABLES
    authConfig,
    now,
    authList,      \* LocalAuthList: the entry of each tag, or NoInfo
    listVersion,   \* its version; 0 is the empty list
    authCache,     \* AuthCache: the entry of each tag and when it expires, or NoCached
    asking,        \* each asker: where its authorize() is, for which tag, and its answer
    told,          \* history: the answers of the CSMS for each tag ...
    last,          \* ... the one it gave last ...
    overlapped,    \* ... and the tags two tasks had a CALL under way for at once
    verdict,       \* history: what authorize() returned in the last step, from where, when,
                   \* what the CSMS had said last of the tag then, and whether CALLs
                   \* for it had overlapped; NoVerdict after a step that returned nothing
    listUpdates    \* SendLocalList requests so far

authVars == <<authConfig, now, authList, listVersion, authCache, asking, told, last, overlapped,
              verdict, listUpdates>>

NoCached == [info |-> NoInfo, expiresAt |-> 0]
NotAsking == [at |-> "idle", tag |-> "none", answer |-> NoInfo]
NoVerdict == [tag |-> "none", info |-> NoInfo, from |-> "none", at |-> 0, last |-> NoInfo,
              raced |-> FALSE]

AuthInit ==
    /\ authConfig \in AuthConfigs
    /\ now = 0
    /\ authList = [t \in IdTags |-> NoInfo]
    /\ listVersion = 0
    /\ authCache = [t \in IdTags |-> NoCached]
    /\ asking = [a \in Askers |-> NotAsking]
    /\ told = [t \in IdTags |-> {}]
    /\ last = [t \in IdTags |-> NoInfo]
    /\ overlapped = {}
    /\ verdict = NoVerdict
    /\ listUpdates = 0

Clock ==
    /\ now < MaxTime
    /\ now' = now + 1
    /\ verdict' = NoVerdict
    /\ UNCHANGED <<authConfig, authList, listVersion, authCache, asking, told, last, overlapped,
                   listUpdates>>

---------------------------------------------------------------------------
(* authorize() *)

Passed(expiry) == expiry # Never /\ now >= expiry

Return(a, t, info, from) ==
    /\ asking' = [asking EXCEPT ![a] = NotAsking]
    /\ verdict' = [tag |-> t, info |-> info, from |-> from, at |-> now, last |-> last[t],
                   raced |-> t \in overlapped]

\* The list, if it is enabled: an entry that has not expired is returned as it is.
Authorize(a, t) ==
    /\ asking[a].at = "idle"
    /\ IF authConfig.listEnabled /\ authList[t] # NoInfo /\ ~Passed(authList[t].expiry)
       THEN Return(a, t, authList[t], "list")
       ELSE /\ asking' = [asking EXCEPT ![a] = [at |-> "cache", tag |-> t, answer |-> NoInfo]]
            /\ verdict' = NoVerdict
    /\ UNCHANGED <<authConfig, now, authList, listVersion, authCache, told, last, overlapped,
                   listUpdates>>

\* Mutant: the look-up forgets the time, as get_stale does.
CacheHitStale(t) == authCache[t] # NoCached

\* AuthCache::get: an entry is good until it expires.
CacheHit(t) == authCache[t] # NoCached /\ now < authCache[t].expiresAt

\* The tasks that are between the look-up in the cache and their return.
InFlight(t) == {b \in Askers : asking[b].tag = t /\ asking[b].at \in {"calling", "answered"}}

\* The cache: only an acceptance is returned, everything else goes to the CSMS.
LookInCache(a) ==
    /\ asking[a].at = "cache"
    /\ LET t == asking[a].tag
       IN  IF CacheHit(t) /\ authCache[t].info.status = "Accepted"
           THEN Return(a, t, authCache[t].info, "cache") /\ UNCHANGED overlapped
           ELSE /\ asking' = [asking EXCEPT ![a].at = "calling"]
                /\ overlapped' = IF InFlight(t) = {} THEN overlapped ELSE overlapped \cup {t}
                /\ verdict' = NoVerdict
    /\ UNCHANGED <<authConfig, now, authList, listVersion, authCache, told, last, listUpdates>>

\* The CALLRESULT reaches the waiting task.
AuthorizeAnswered(a, info) ==
    /\ asking[a].at = "calling"
    /\ asking' = [asking EXCEPT ![a].at = "answered", ![a].answer = info]
    /\ told' = [told EXCEPT ![asking[a].tag] = @ \cup {info}]
    /\ last' = [last EXCEPT ![asking[a].tag] = info]
    /\ verdict' = NoVerdict
    /\ UNCHANGED <<authConfig, now, authList, listVersion, authCache, overlapped, listUpdates>>

\* Mutant: only an acceptance is worth caching.
InsertAccepted(t, info) ==
    authCache' = IF info.status = "Accepted"
                 THEN [authCache EXCEPT ![t] =
                         [info |-> info,
                          expiresAt |-> IF info.expiry = Never THEN now + Ttl ELSE info.expiry]]
                 ELSE authCache

\* AuthCache::insert: until the expiry the CSMS gave, or for the time to live.
Insert(t, info) ==
    authCache' = [authCache EXCEPT ![t] =
                    [info |-> info,
                     expiresAt |-> IF info.expiry = Never THEN now + Ttl ELSE info.expiry]]

\* The task resumes: whatever the status, the answer is cached and returned, also one
\* that another task's answer has overtaken.
Remember(a) ==
    /\ asking[a].at = "answered"
    /\ Insert(asking[a].tag, asking[a].answer)
    /\ Return(a, asking[a].tag, asking[a].answer, "csms")
    /\ UNCHANGED <<authConfig, now, authList, listVersion, told, last, overlapped, listUpdates>>

\* The CALL times out: an acceptance still in the cache may do, however old.
AuthorizeTimesOut(a) ==
    /\ asking[a].at = "calling"
    /\ LET cached == authCache[asking[a].tag].info
       IN  IF authConfig.staleOk /\ cached.status = "Accepted"
           THEN Return(a, asking[a].tag, cached, "stale")
           ELSE Return(a, asking[a].tag, [status |-> "Invalid", expiry |-> Never], "safe")
    /\ UNCHANGED <<authConfig, now, authList, listVersion, authCache, told, last, overlapped,
                   listUpdates>>

\* Any other error of the CALL is the caller's.
AuthorizeFails(a) ==
    /\ asking[a].at = "calling"
    /\ asking' = [asking EXCEPT ![a] = NotAsking]
    /\ verdict' = NoVerdict
    /\ UNCHANGED <<authConfig, now, authList, listVersion, authCache, told, last, overlapped,
                   listUpdates>>

---------------------------------------------------------------------------
(* The handlers *)

ClearCache ==
    /\ authCache' = [t \in IdTags |-> NoCached]
    /\ verdict' = NoVerdict
    /\ UNCHANGED <<authConfig, now, authList, listVersion, asking, told, last, overlapped,
                   listUpdates>>

\* v201_status_to_v16j and v16j_request_from_v201: the 2.0.1 statuses without a
\* counterpart become Invalid, and the expiry is not taken over.
FromV201(info) ==
    IF info = NoInfo THEN NoInfo
    ELSE [status |-> IF info.status \in {"Accepted", "Blocked", "Expired", "ConcurrentTx"}
                     THEN info.status ELSE "Invalid",
          expiry |-> Never]

ReadEntries(entries) ==
    IF authConfig.version = "V16J" THEN entries
    ELSE [i \in DOMAIN entries |-> [entries[i] EXCEPT !.info = FromV201(@)]]

HasDuplicateIdTags(entries) ==
    \E i, j \in DOMAIN entries : i # j /\ entries[i].tag = entries[j].tag

Listed(list) == {t \in IdTags : list[t] # NoInfo}

\* The list with the entries applied on top: a bare idTag removes its entry.
Patched(list, entries) ==
    [t \in IdTags |-> IF \E i \in DOMAIN entries : entries[i].tag = t
                      THEN entries[CHOOSE i \in DOMAIN entries : entries[i].tag = t].info
                      ELSE list[t]]

EmptyList == [t \in IdTags |-> NoInfo]

\* LocalAuthList::apply, in the order of its checks: the answer and the new list.
Apply(kind, version, entries) ==
    LET patched == Patched(IF kind = "Full" THEN EmptyList ELSE authList, entries)
        bare == \E i \in DOMAIN entries : entries[i].info = NoInfo
        status == CASE HasDuplicateIdTags(entries) \/ (kind = "Full" /\ bare) -> "Failed"
                    [] kind = "Differential" /\ ~HasDuplicateIdTags(entries)
                         /\ version <= listVersion -> "VersionMismatch"
                    [] OTHER -> IF Cardinality(Listed(patched)) > MaxLength
                                THEN "Failed" ELSE "Accepted"
    IN  [status |-> status, list |-> IF status = "Accepted" THEN patched ELSE authList]

SendLocalList(kind, version, entries) ==
    /\ listUpdates < MaxListUpdates
    /\ listUpdates' = listUpdates + 1
    /\ LET applied == Apply(kind, version, ReadEntries(entries))
       IN  /\ authList' = applied.list
           /\ listVersion' = IF applied.status = "Accepted" THEN version ELSE listVersion
    /\ verdict' = NoVerdict
    /\ UNCHANGED <<authConfig, now, authCache, asking, told, last, overlapped>>

AuthNext ==
    \/ Clock
    \/ \E a \in Askers :
        \/ \E t \in AskedTags : Authorize(a, t)
        \/ LookInCache(a)
        \/ \E info \in TagInfos : AuthorizeAnswered(a, info)
        \/ Remember(a)
        \/ AuthorizeTimesOut(a)
        \/ AuthorizeFails(a)
    \/ ClearCache
    \/ \E kind \in {"Full", "Differential"}, version \in 1..MaxListUpdates, n \in 0..2 :
        \E entries \in [1..n -> [tag: IdTags, info: TagInfos \cup {NoInfo}]] :
            SendLocalList(kind, version, entries)

AuthSpec == AuthInit /\ [][AuthNext]_authVars

---------------------------------------------------------------------------
(* Properties *)

AuthTypeOK ==
    /\ authConfig \in AuthConfig
    /\ now \in 0..MaxTime
    /\ listVersion \in 0..MaxListUpdates
    /\ \A a \in Askers : asking[a].at \in {"idle", "cache", "calling", "answered"}
    /\ DOMAIN authList = IdTags /\ DOMAIN authCache = IdTags
    /\ Cardinality(Listed(authList)) <= MaxLength

\* An acceptance authorize() returns from anywhere but the Local Authorization List
\* is an answer the CSMS gave for that very tag; and if no two tasks ever had an
\* Authorize CALL for the tag under way at once, it is the last answer, not one that
\* a later refusal replaced.  (Overlapping CALLs may insert their answers in the
\* reverse order, and then the older acceptance is served again.)  An acceptance from
\* the list or the cache had not expired; one of the CSMS is returned as it came,
\* whatever its expiry; an expired one is served only by the stale fallback, and
\* that, like the list, only if configured (authorize and AuthCache::insert, against
\* ClearCache, SendLocalList, time, failed CALLs and other tasks).
GrantIsBacked ==
    LET v == verdict
    IN  v.info.status = "Accepted" =>
            /\ v.from # "list" => v.info \in told[v.tag]
            /\ v.from # "list" /\ ~v.raced => v.info = v.last
            /\ v.from \in {"list", "cache"} /\ v.info.expiry # Never => v.at < v.info.expiry
            /\ v.from = "stale" => authConfig.staleOk
            /\ v.from = "list" => authConfig.listEnabled
============================================================================
