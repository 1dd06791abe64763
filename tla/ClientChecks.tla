----------------------------- MODULE ClientChecks -----------------------------
(***************************************************************************)
(* The checks of what a client writes to a device beside its requests:       *)
(* monitor values (harness/vtp1_harness/checks/monitor.py) and aiding chunks *)
(* (aiding.py).                                                              *)
(***************************************************************************)
EXTENDS ControlChecks

-----------------------------------------------------------------------------
(* Monitor: the declared slots are 1..channels, 0 is a slot nobody asked for *)

MonitorListed(a) ==
    LET b == FailIf(a, \/ a.device.channels = 0
                       \/ Has(a.device, "list_reserved_nonzero")
                       \/ Has(a.device, "monitor_paged_declaration"))
    IN  Noted(b, [b.session EXCEPT !.channels = a.device.channels])
MonitorDeclaration(w) == MonitorListed(Expect(w, Bare("MONITOR_LIST"), {"ok"}))

\* One write, and whether it has to be refused.
Written(w, slots, count, refused) ==
    FailIf(SkipIf(w, w.session.channels = 0), Refused(w.device, slots, count) # refused)
Every(w) == Count(w.session.channels)

AcceptsCompleteWrite(w) == Written(w, Every(w), w.session.channels, FALSE)
AbsentIsAState(w)       == Written(w, Every(w), w.session.channels, FALSE)
RejectsIncomplete(w) ==
    LET n == w.session.channels - 1
    IN  IF n < 1 THEN End(w, "skip") ELSE Written(w, Count(n), n, TRUE)
RejectsBadLength(w)     == Written(w, Every(w), w.session.channels + 1, TRUE)
RejectsDuplicateSlot(w) == Written(w, Every(w) \o <<1>>, w.session.channels + 1, TRUE)
IgnoresUnknownSlot(w)   == Written(w, Every(w) \o <<0>>, w.session.channels + 1, FALSE)

-----------------------------------------------------------------------------
(* Aiding *)

AidingListed(a) ==
    Noted(FailIf(a, a.device.aid_room = 0 \/ Has(a.device, "aid_stale_held_until")),
          [a.session EXCEPT !.aid_caps = TRUE])
AidingDeclaration(w) == AidingListed(Expect(w, Bare("GNSS_AID_INFO"), {"ok"}))

Declared(w)   == SkipIf(w, ~w.session.aid_caps)
Within(w, n)  == IF n > w.device.aid_room THEN w.device.aid_room ELSE n

\* The transfer it opens is left for the next BEGIN to discard.
Begun(a) ==
    Noted(FailIf(a, Has(a.device, "aid_chunk_exceeds_mtu")), [a.session EXCEPT !.aid_begin = TRUE])
ChunkSize(w) == Begun(Expect(Declared(w), Begin("declared", Within(w, 3)), {"ok"}))

RejectsUndeclaredFormat(w) == Expect(Declared(w), Begin("other", Within(w, 3)), {"bad_params"})
RejectsOversized(w) == Expect(Declared(w), Begin("declared", w.device.aid_room + 1), {"bad_params"})

\* _open_transfer of n chunks, and chunks written to it under a token.
Transfer(w, n) == Expect(SkipIf(Declared(w), ~w.session.aid_begin), Begin("declared", n), {"ok"})
Received(d, token, indices, foreign) ==
    LET after[n \in 0..Len(indices)] ==
            IF n = 0 THEN d ELSE Chunk(after[n - 1], token, indices[n], foreign)
    IN  after[Len(indices)]
Sent(w, token, indices, foreign) ==
    IF Over(w) THEN w ELSE [w EXCEPT !.device = Received(@, token, indices, foreign)]
Indices(n) == [i \in 1..n |-> i - 1]
Filled(a, indices) == Sent(a, a.device.aid.token, indices, FALSE)
Whole(w, n) == Filled(Transfer(w, n), Indices(n))

\* GNSS_AID_COMMIT, and the results a check allows: some, whatever index they carry.
AnyOf(results) == [result : results, first : {-1, 0, 1}]
Allowing(a, r, allowed) == IF Over(a) THEN a ELSE FailIf(a, r \notin allowed)
Committed(w, crc, taken, allowed) ==
    Allowing(Expect(w, Commit, {"ok"}), CommitResult(w.device, crc, taken), allowed)

\* The operator's own bytes when there are any; a receiver is free to refuse others.
AidingTransfer(w) ==
    LET blob == w.session.blob
        given == blob.chunks > 0
        n == IF given THEN blob.chunks ELSE Within(w, 3)
        taken == ~w.device.strict \/ (given /\ blob.aiding)
        a == SkipIf(SkipIf(Declared(w), ~w.session.aid_begin),
                    given /\ (n > w.device.aid_room \/ n > ChunkCap))
        judged(b) == IF taken THEN b ELSE ObserveIf(WarnIf(b, given), TRUE)
    IN  judged(Committed(Whole(a, n), "good", taken, AnyOf({"rejected"}) \cup {Complete("applied")}))

\* Chunk 1 is kept back, asked for, and sent.
Resent(c, t) ==
    Committed(Sent(c, t, <<1>>, FALSE), "good", ~c.device.strict,
              AnyOf({"bad_crc", "rejected", "applied"}))
Withholding(a, n) ==
    LET t == a.device.aid.token
        b == Sent(a, t, <<0>> \o [i \in 1..(n - 2) |-> i + 1], FALSE)
    IN  Resent(Committed(b, "good", TRUE, {Incomplete(1)}), t)
ReportsMissingChunk(w) ==
    LET n == Within(w, 3)
    IN  Withholding(SkipIf(Transfer(w, n), n < 2), n)

DetectsCorruption(w) ==
    Committed(Whole(w, Within(w, 3)), "bad", TRUE, AnyOf({"bad_crc"}))

\* A smaller transfer opened over a larger one, and a chunk of the old one after it.
Superseding(c, n, old) ==
    LET d == Filled(FailIf(c, c.device.aid.token = old), Indices(n))
    IN  Committed(Sent(d, old, <<0>>, TRUE), "good", ~c.device.strict, AnyOf({"rejected", "applied"}))
Reopened(a, n) ==
    LET old == a.device.aid.token
    IN  Superseding(Transfer(Sent(a, old, <<0>>, FALSE), n), n, old)
BeginSupersedes(w) == Reopened(Transfer(w, Within(w, 4)), Within(w, 2))

-----------------------------------------------------------------------------
Monitor == {"monitor", "control"}
AidRole == {"gnss_aiding", "control"}

ClientRegistry ==
    <<Check("monitor.declaration", Monitor, FALSE),
      Check("monitor.accepts_complete_write", Monitor, FALSE),
      Check("monitor.absent_is_a_state", Monitor, FALSE),
      Check("monitor.rejects_incomplete", Monitor, TRUE),
      Check("monitor.rejects_bad_length", Monitor, TRUE),
      Check("monitor.rejects_duplicate_slot", Monitor, TRUE),
      Check("monitor.ignores_unknown_slot", Monitor, TRUE),
      Check("aiding.declaration", AidRole, FALSE),
      Check("aiding.chunk_size", AidRole, FALSE),
      Check("aiding.rejects_undeclared_format", AidRole, TRUE),
      Check("aiding.rejects_oversized", AidRole, TRUE),
      Check("aiding.transfer", AidRole, FALSE),
      Check("aiding.reports_missing_chunk", AidRole, TRUE),
      Check("aiding.detects_corruption", AidRole, TRUE),
      Check("aiding.begin_supersedes", AidRole, TRUE)>>

ClientCheck(id, w) ==
    CASE id = "monitor.declaration" -> MonitorDeclaration(w)
      [] id = "monitor.accepts_complete_write" -> AcceptsCompleteWrite(w)
      [] id = "monitor.absent_is_a_state" -> AbsentIsAState(w)
      [] id = "monitor.rejects_incomplete" -> RejectsIncomplete(w)
      [] id = "monitor.rejects_bad_length" -> RejectsBadLength(w)
      [] id = "monitor.rejects_duplicate_slot" -> RejectsDuplicateSlot(w)
      [] id = "monitor.ignores_unknown_slot" -> IgnoresUnknownSlot(w)
      [] id = "aiding.declaration" -> AidingDeclaration(w)
      [] id = "aiding.chunk_size" -> ChunkSize(w)
      [] id = "aiding.rejects_undeclared_format" -> RejectsUndeclaredFormat(w)
      [] id = "aiding.rejects_oversized" -> RejectsOversized(w)
      [] id = "aiding.transfer" -> AidingTransfer(w)
      [] id = "aiding.reports_missing_chunk" -> ReportsMissingChunk(w)
      [] id = "aiding.detects_corruption" -> DetectsCorruption(w)
      [] id = "aiding.begin_supersedes" -> BeginSupersedes(w)
=============================================================================
