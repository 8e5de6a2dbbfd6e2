----------------------------- MODULE TaskStages -----------------------------
(***************************************************************************)
(* core/queue: how one run of a task turns the error its handler returns   *)
(* into a task state, an event and an error for the broker's driver.       *)
(*                                                                         *)
(* An error is abstracted to what the predicates of error.go tell apart.   *)
(* "later" is a retryable error that names its own delay, "laterDeadline"  *)
(* one that wraps context.DeadlineExceeded, "limited" a RateLimitError.    *)
(* Join(err, pushErr) is told apart from err by none of them.              *)
(***************************************************************************)
EXTENDS Integers

Errors == {"none", "plain", "ignored", "limited", "deadline", "timeout",
           "retryable", "later", "laterDeadline", "fatal", "deadletter"}

IsFatal(e) == e \in {"fatal", "deadletter"}
IsRetryable(e) == e \in {"retryable", "later", "laterDeadline", "timeout"}
IsTimeout(e) == e \in {"timeout", "deadline", "laterDeadline"}
NamesDelay(e) == e \in {"later", "laterDeadline"}

\* RetryableAfter: the wrapped error is no longer of kind timeout, but
\* errors.Is still finds the deadline in it.
Delayed(e) == IF e = "deadline" THEN "laterDeadline" ELSE "later"

States == {"", "pending", "running", "retrying", "success", "failed", "deadletter"}

Edges ==
    {<<"", "pending">>, <<"", "running">>, <<"pending", "running">>,
     <<"running", "success">>, <<"running", "retrying">>, <<"running", "failed">>,
     <<"retrying", "running">>, <<"failed", "deadletter">>}

CanTransition(from, to) == (from # "" /\ from = to) \/ <<from, to>> \in Edges

\* TransitionTaskState: an illegal transition leaves the state alone.
Moved(s, to) == IF CanTransition(s, to) THEN to ELSE s
DeadLetterAtOnce(s) == Moved(s, "deadletter")  \* faulty
MovedToDeadLetter(s) == Moved(Moved(s, "failed"), "deadletter")

\* RetryExhausted: a negative maxRetry is never exhausted.
ExhaustedEarly(retryCount, maxRetry) == maxRetry >= 0 /\ retryCount + 1 >= maxRetry  \* faulty
Exhausted(retryCount, maxRetry) == maxRetry >= 0 /\ retryCount >= maxRetry

-----------------------------------------------------------------------------
(* The stages, from the innermost out.  r is the run: its error and state; *)
(* count and max are what RetryExhausted compares.                         *)

\* DeadLetter asks for a record.
WantsRecord(e, count, max) ==
    e \notin {"none", "ignored"} /\ (IsFatal(e) \/ Exhausted(count, max))

Recorded(r) == [r EXCEPT !.err = "deadletter", !.state = MovedToDeadLetter(@)]

\* Retry leaves these alone, whatever the count.
Settled(r) ==
    \/ r.err \in {"none", "limited", "ignored"}
    \/ IsFatal(r.err)
    \/ r.state = "deadletter"

\* again: the strategy grants another attempt.
Retried(r, count, max, again) ==
    IF Settled(r)
      THEN r
    ELSE IF Exhausted(count, max)
      THEN [r EXCEPT !.err = "deadletter", !.state = MovedToDeadLetter(@)]
    ELSE IF NamesDelay(r.err) \/ ~again
      THEN r
      ELSE [r EXCEPT !.err = Delayed(@), !.state = Moved(@, "retrying")]

Dies(r, count, max) ==
    \/ r.state = "deadletter"
    \/ IsFatal(r.err)
    \/ Exhausted(count, max) /\ r.err \notin {"limited", "ignored"}

\* The end of Execute, and finishFailure.
Finished(r, count, max) ==
    IF r.err = "none"
      THEN [r EXCEPT !.state = Moved(@, "success"), !.event = "success"]
    ELSE IF Dies(r, count, max)
      THEN [r EXCEPT !.state = MovedToDeadLetter(@), !.event = "deadletter"]
    ELSE IF IsTimeout(r.err)
      THEN [r EXCEPT !.state = Moved(@, "failed"), !.event = "timeout"]
    ELSE IF IsRetryable(r.err) \/ r.err = "limited"
      THEN [r EXCEPT !.state = Moved(@, "retrying"), !.event = "retry"]
      ELSE [r EXCEPT !.state = Moved(@, "failed"), !.event = "failed"]
=============================================================================
