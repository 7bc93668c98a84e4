---------------------------- MODULE HarnessTools ----------------------------
(***************************************************************************)
(* upload_harness (tools/harness_tools.py), which publishes file after     *)
(* file on one session, and scripts/reindex_all_*.py.                      *)
(***************************************************************************)
EXTENDS HarnessStore

-----------------------------------------------------------------------------
(* upload_harness *)

Uploading(p) == upload[p] # NoCall

\* Skills and rules, of an app or, with an origin URL, of a pattern.
Uploadable ==
    {f \in File : /\ f.stream \in store
                  /\ f.stream.kind \in {"skill", "rule"}
                  /\ f.stream.scope \in {"app", "repo"} /\ f.stream.owner # Default}

StartUpload(p) ==
    /\ Idle(p) /\ ~Uploading(p)
    /\ \E files \in SUBSET Uploadable :
          /\ Cardinality(files) \in 1 .. MaxFiles
          /\ upload' = [upload EXCEPT ![p] =
                          [todo |-> files, stored |-> {}, failed |-> {}, wrote |-> {},
                           session |-> "good"]]
    /\ UNCHANGED <<scene, tables, call, script>>

UploadFile(p) ==
    /\ Idle(p) /\ Uploading(p) /\ upload[p].session = "good"
    /\ \E f \in upload[p].todo :
          /\ upload' = [upload EXCEPT ![p].todo = @ \ {f}]
          /\ Continue(p, Request(f.stream, f.body))
    /\ UNCHANGED <<scene, tables, script>>

\* A session that lost a transaction refuses everything until a rollback,
\* which the loop over the files never asks for.
UploadFileRefused(p) ==
    /\ Idle(p) /\ Uploading(p) /\ upload[p].session = "lost"
    /\ \E f \in upload[p].todo :
          upload' = [upload EXCEPT ![p].todo = @ \ {f}, ![p].failed = @ \cup {f}]
    /\ UNCHANGED <<scene, tables, call, script>>

EndUpload(p) ==
    /\ Idle(p) /\ Uploading(p) /\ upload[p].todo = {}
    /\ upload' = [upload EXCEPT ![p] = NoCall]
    /\ UNCHANGED <<scene, tables, call, script>>

upload_harness(p) ==
    \/ StartUpload(p)
    \/ UploadFile(p)
    \/ UploadFileRefused(p)
    \/ EndUpload(p)

-----------------------------------------------------------------------------
(* reindex_all_skills, reindex_all_workflows, reindex_all_docs *)

Reindexing(p) == script[p] # NoCall

StartReindex(p, kind) ==
    /\ Idle(p) /\ ~Reindexing(p)
    /\ \E s \in store : s.kind = kind
    /\ script' = [script EXCEPT ![p] =
                    [kind |-> kind, scopes |-> Scopes, todo |-> {}, indexed |-> {}]]
    /\ chunks' \in {chunks, {c \in chunks : c.stream.kind # kind}}  \* --purge-old
    /\ UNCHANGED <<scene, rows, nextId, call, upload>>

reindex_all_skills(p) == StartReindex(p, "skill")
reindex_all_workflows(p) == StartReindex(p, "workflow")
reindex_all_docs(p) == StartReindex(p, "doc")

\* One query for each scope: the latest row of every stream.
ReadLatestVersions(p) ==
    /\ Idle(p) /\ Reindexing(p) /\ script[p].todo = {}
    /\ \E scope \in script[p].scopes :
          script' = [script EXCEPT
              ![p].scopes = @ \ {scope},
              ![p].todo = UNION {Latest(s) : s \in {t \in store : /\ t.kind = script[p].kind
                                                                  /\ t.scope = scope}}]
    /\ UNCHANGED <<scene, tables, call, upload>>

ReindexRow(p) ==
    /\ Idle(p) /\ Reindexing(p)
    /\ \E r \in script[p].todo :
          /\ script' = [script EXCEPT ![p].todo = @ \ {r}]
          /\ Continue(p, [Request(r.stream, r.body) EXCEPT !.step = "index", !.id = r.id])
    /\ UNCHANGED <<scene, tables, upload>>

\* Every commit makes the session read a row again when it is used; one that
\* is gone raises, and raises again in the handler that reports it.
ReindexRowGone(p) ==
    /\ Idle(p) /\ Reindexing(p)
    /\ \E r \in script[p].todo : \A q \in rows : q.id # r.id
    /\ script' = [script EXCEPT ![p] = NoCall]
    /\ UNCHANGED <<scene, tables, call, upload>>

EndReindex(p) ==
    /\ Idle(p) /\ Reindexing(p) /\ script[p].todo = {} /\ script[p].scopes = {}
    /\ script' = [script EXCEPT ![p] = NoCall]
    /\ UNCHANGED <<scene, tables, call, upload>>

Reindex(p) ==
    \/ reindex_all_skills(p)
    \/ reindex_all_workflows(p)
    \/ reindex_all_docs(p)
    \/ ReadLatestVersions(p)
    \/ ReindexRow(p)
    \/ ReindexRowGone(p)
    \/ EndReindex(p)
=============================================================================
