----------------------------- MODULE MCSessions -----------------------------
(***************************************************************************)
(* Calls over one or two buckets, and the scenarios in which they meet:    *)
(* the sessions that run and the database they start from.                 *)
(***************************************************************************)
EXTENDS Sessions

CONSTANTS putter, completer, stager, copier, marker, remover, purger,
          collector, sweeper, aborter, beginner, creator, dropper, forker, x, y

MCCall ==
    [s \in Session |->
        CASE s = putter -> [op |-> "put", bucket |-> 1, key |-> 1, body |-> x, createOnly |-> TRUE]
          [] s = completer -> [op |-> "complete_upload", upload |-> 1]
          [] s = stager -> [op |-> "put_chunk", upload |-> 1, body |-> x]
          [] s = copier -> [op |-> "copy", source |-> 1, sourceKey |-> 2, bucket |-> 1, key |-> 1,
                            createOnly |-> FALSE]
          [] s = marker -> [op |-> "delete", bucket |-> 1, key |-> 2]
          [] s = remover -> [op |-> "delete_many", bucket |-> 1,
                entries |-> <<[key |-> 2, version |-> {1}], [key |-> 3, version |-> {2}],
                              [key |-> 2, version |-> {}]>>]
          [] s = purger -> [op |-> "delete_many", bucket |-> 1,
                entries |-> <<[key |-> 4, version |-> {3}], [key |-> 5, version |-> {4}]>>]
          [] s = collector -> [op |-> "gc_blobs"]
          [] s = sweeper -> [op |-> "gc_pending_uploads"]
          [] s = aborter -> [op |-> "abort_upload", upload |-> 1]
          [] s = beginner -> [op |-> "begin_upload", bucket |-> 1, key |-> 1, upload |-> 2,
                              createOnly |-> FALSE]
          [] s = creator -> [op |-> "create_bucket", bucket |-> 1]
          [] s = dropper -> [op |-> "delete_bucket", bucket |-> 1]
          [] s = forker -> [op |-> "fork_bucket", source |-> 1, bucket |-> 2]]

Put(k, c) == [bucket |-> 1, key |-> k, body |-> c]
TwoObjects == <<Put(2, x), Put(3, y)>>
FourObjects == TwoObjects \o <<Put(4, y), Put(5, x)>>
Staged(c, createOnly) == <<[bucket |-> 1, key |-> 1, blob |-> {c}, createOnly |-> createOnly]>>

Meeting(calls, stored, pending) == [calls |-> calls, stored |-> stored, pending |-> pending]

\* A create-only put and a create-only completion of the same bytes, the delete
\* of their other owners, and the collectors.
Publishing == Meeting({putter, completer, remover, collector, sweeper}, TwoObjects, Staged(x, TRUE))

\* One blob attached and detached from all sides.
Reusing == Meeting({putter, copier, stager, remover, collector, aborter}, TwoObjects, Staged(y, FALSE))

\* A bucket deleted and created again under its children.
Rebirth == Meeting({dropper, creator, putter, completer, beginner, aborter}, <<>>, Staged(x, TRUE))

\* A fork while its source changes.
Forking == Meeting({forker, putter, marker, remover, dropper}, <<Put(2, x), Put(3, x)>>, <<>>)

\* Two bulk deletes of disjoint keys that release the same two blobs, in
\* opposite orders.
Purging == Meeting({remover, purger, collector}, FourObjects, <<>>)

MCTransactions == {Publishing, Reusing, Rebirth, Forking, Purging}
MCForkRace == {Meeting({forker, remover, collector}, TwoObjects, <<>>)}
MCBulkRace == {Purging}
MCDropRace == {Meeting({dropper, completer}, <<>>, Staged(x, TRUE))}
=============================================================================
