--------------------------- MODULE WebProperties ---------------------------
(***************************************************************************)
(* What the page of WebClient is checked against.                          *)
(***************************************************************************)
EXTENDS WebClient

\* The page, the storage and the coordinator keep their types: a booking
\* shown has a status, a queued recovery exists only while one runs, a batch
\* holds events received.
WebTypeOK ==
    /\ server \in [Call -> ServerRow \cup {None}]
    /\ \A c \in Call : \A n \in DOMAIN stream[c] : stream[c][n] \in Event
    /\ page \in PageRow
    /\ storage \in Snapshot \cup {None}
    /\ active \in RunRow \cup {None}
    /\ queued # None => active # None
    /\ \A n \in DOMAIN batch : batch[n] < sse.next
    /\ \A n \in DOMAIN sync : sync[n].attempts < SyncAttempts

\* Nothing is under way, and the last event has reached the page.
Quiet ==
    /\ active = None /\ batch = <<>> /\ late = {}
    /\ \A k \in Command : req[k].state = "idle"
    /\ page.callId # None /\ sse.up
    /\ page.lastSequence = Len(stream[page.callId])

\* A turn that came with no later event asking for a recovery may have been
\* overwritten by an older reading; the next recovery brings it back.
SettledTurns(c) ==
    {t \in Turn : \E n \in DOMAIN stream[c] :
        /\ stream[c][n].event = "transcript.turn.created" /\ stream[c][n].data = t
        /\ \E m \in n + 1 .. Len(stream[c]) : stream[c][m].event \in RecoveryEvent}

\* When everything has come to rest, the page shows what the API holds - call,
\* turns, booking, gate, and the payment and receipt it knows of - whatever
\* the order in which events and answers arrived, across skipped events, broken
\* connections and reloads.  Of an intent it created itself the page may know
\* no status: the recovery after the skipped event of its creation may have
\* ended before the reply named it.  Excluded are a request that failed since
\* the page was loaded, another call's answer written on this page, and a gap
\* noticed while the page still waited for the recovery of an earlier one.
Converged ==
    Quiet /\ ~failed /\ ~foreign /\ ~missed =>
      LET row == server[page.callId]
      IN  /\ page.callStatus = row.status
          /\ {<<page.callId, t>> : t \in SettledTurns(page.callId)} \subseteq page.transcript
          /\ row.stage # None => /\ page.booking = [of |-> page.callId, status |-> row.stage]
                                 /\ page.paymentGate = row.gate
          /\ page.paymentIntentId # None =>
               \/ page.paymentStatus = PaymentStatusOf(row)
               \/ page.paymentStatus = None /\ page.paymentIntent = page.paymentIntentId
          /\ page.receiptId # None => page.receipt = page.receiptId
          /\ ~page.needsRecovery

\* When everything has come to rest, a reload resumes the call on the page with
\* the booking and the intent it shows, as long as nothing is decided, and
\* resumes nothing once the receipt is issued, unless the stream has skipped the
\* receipt's event.  (A call under manual review is left out: its pointer comes
\* back, see README.)
ResumesOpenCall ==
    Quiet /\ ~failed /\ ~foreign /\ ~missed =>
      LET stage == server[page.callId].stage
      IN  /\ stage = "RECEIPT_ISSUED" => storage = None
          /\ stage \notin {"RECEIPT_ISSUED", "MANUAL_REVIEW_REQUIRED"} =>
                storage = [callId |-> page.callId, bookingId |-> page.bookingId,
                           paymentIntentId |-> page.paymentIntentId]

BothShown == HasCustomerAndAgentTurns({t[2] : t \in page.transcript})

\* A page that waits for the provider's history has something under way that
\* will end the waiting: a chain of attempts of its own call, which has a timer
\* or a recovery that runs, however many stops, joined recoveries and other
\* calls' chains there are.  When its chains are over, the transcript was read
\* complete by the recovery they had joined, and a recovery that will notice it
\* is queued or has yet to read; only if that one failed is nothing left, and
\* then the page shows both turns.
PendingIsAttended ==
    page.postCallTranscriptSync = "PENDING" /\ ~foreign =>
      \/ \E n \in DOMAIN sync :
            /\ sync[n].callId = page.callId
            /\ \/ sync[n].state \in {"timer", "adrift"}
               \/ sync[n].state = "waiting" /\ active # None
      \/ /\ BothShown
         /\ \/ queued # None
            \/ active # None /\ active.get \in {1, 2}
            \/ failed

\* The waiting after a call ends: the transcript is complete or is given up,
\* also when requests fail.  What may stay PENDING is a page that shows both
\* turns, when the recovery queued behind a complete one has failed, and one
\* for which another call's answer was taken.
PostCallSyncSettles ==
    page.postCallTranscriptSync = "PENDING" ~>
        \/ page.postCallTranscriptSync # "PENDING"
        \/ failed /\ BothShown
        \/ foreign
=============================================================================
