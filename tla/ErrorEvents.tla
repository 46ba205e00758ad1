---------------------------- MODULE ErrorEvents ----------------------------
(***************************************************************************)
(* Which telemetry event an invocation that ends in an error is reported   *)
(* by.  An error is the sequence of itself, its cause, the cause of that,  *)
(* and so on; what is no error of the program's own classes ends the       *)
(* search.  The second part says what errors an SFTP call can throw.       *)
(***************************************************************************)
EXTENDS Integers, Sequences, FiniteSets

None == "none"

ERROR_EVENT_MAX_DEEP == 50

\* class: "CustomError" and its subclasses, "CrmError" among them, or "Error".
\* status: the HTTP status on it, 0 for none.
Link(class, event, status) == [class |-> class, event |-> event, status |-> status]

Links == [class : STRING, event : STRING, status : Nat]

\* TypeScript's  errorEventMaxDeep || ERROR_EVENT_MAX_DEEP.
MaxDeep(errorEventMaxDeep) ==
    IF errorEventMaxDeep = 0 THEN ERROR_EVENT_MAX_DEEP ELSE errorEventMaxDeep

\* The same table for TARS and the DVA, with events of their own.
HttpErrorEvent(httpStatus) ==
    CASE httpStatus = 400          -> "CDS_BAD_REQUEST"
      [] httpStatus = 404          -> "CDS_NOT_FOUND"
      [] httpStatus = 500          -> "CDS_INTERNAL_ERROR"
      [] httpStatus \in {401, 403} -> "CDS_CONNECTIVITY_ISSUE"
      [] OTHER                     -> None

\* Mutant of GetErrorEvent: the limit itself is too deep.
GetErrorEventBelow(error, maxDeep) ==
    LET event[deepCount \in Nat] ==
            IF deepCount >= maxDeep \/ deepCount >= Len(error) THEN None
            ELSE LET link == error[deepCount + 1]
                 IN  IF link.class = "Error" THEN None
                     ELSE IF link.event # None THEN link.event
                     ELSE event[deepCount + 1]
    IN  event[0]

GetErrorEvent(error, maxDeep) ==
    LET event[deepCount \in Nat] ==
            IF deepCount > maxDeep \/ deepCount >= Len(error) THEN None
            ELSE LET link == error[deepCount + 1]
                 IN  IF link.class = "Error" THEN None
                     ELSE IF link.event # None THEN link.event
                     ELSE event[deepCount + 1]
    IN  event[0]

StatusOfCause(error) == IF Len(error) > 1 THEN error[2].status ELSE 0

\* A CRM error is reported by the HTTP status of its cause alone if there is one.
HandleError(error, errorEventMaxDeep) ==
    IF error[1].class # "CrmError"
    THEN GetErrorEvent(error, MaxDeep(errorEventMaxDeep))
    ELSE IF StatusOfCause(error) # 0 THEN HttpErrorEvent(StatusOfCause(error))
    ELSE GetErrorEvent(error, ERROR_EVENT_MAX_DEEP)

----------------------------------------------------------------------------
\* An SFTP call opens a connection, does its operation and closes the
\* connection; each may fail.  <<>> is a call that returns.
SftpOperations == {"getFile", "putFile", "listFiles", "deleteFile"}

\* What the SFTP library throws.
Raised == <<Link("Error", None, 0)>>

OperationEvent(operation) ==
    IF operation = "listFiles" THEN "FILE_FETCH_ERROR" ELSE "TRANSFER_ERROR"

OpenConnectionError == <<Link("CustomError", "AUTH_ERROR", 0)>> \o Raised

OperationError(operation) ==
    <<Link("CustomError", OperationEvent(operation), 0)>> \o Raised

CloseConnectionError == <<Link("CustomError", None, 0)>> \o Raised

\* Mutant of SftpCall: the connection is opened inside the try block.
SftpCallOpeningInTry(operation, failing) ==
    CASE "close" \in failing -> CloseConnectionError
      [] failing \intersect {"open", "operation"} # {} /\ "close" \notin failing ->
             OperationError(operation)
      [] OTHER -> <<>>

\* failing: what would fail.  Without a connection nothing is left to close, and
\* what closing throws replaces what the operation threw.
SftpCall(operation, failing) ==
    CASE "open" \in failing -> OpenConnectionError
      [] "open" \notin failing /\ "close" \in failing -> CloseConnectionError
      [] "operation" \in failing /\ failing \intersect {"open", "close"} = {} ->
             OperationError(operation)
      [] OTHER -> <<>>

----------------------------------------------------------------------------
\* Wrapping an error loses no report: the event is that of the nearest error that
\* has one, as long as all before it are the program's own and it is at most as
\* many causes away as the limit says (always 50 for a CRM error); a CRM error with an HTTP status is the
\* exception, and is reported by its status.
NearestEventReported(error, errorEventMaxDeep) ==
    LET limit     == IF error[1].class = "CrmError" THEN ERROR_EVENT_MAX_DEEP
                     ELSE MaxDeep(errorEventMaxDeep)
        reachable == {i \in 1..(limit + 1) \intersect DOMAIN error :
                          \A j \in 1..i : error[j].class # "Error"}
        reporting == {i \in reachable : error[i].event # None}
        byStatus  == error[1].class = "CrmError" /\ StatusOfCause(error) # 0
    IN  HandleError(error, errorEventMaxDeep) =
            IF byStatus THEN HttpErrorEvent(StatusOfCause(error))
            ELSE IF reporting = {} THEN None
            ELSE error[CHOOSE i \in reporting : \A j \in reporting : i <= j].event

\* A failed SFTP call is reported by the event of the step that failed, except
\* that a connection that cannot be closed hides it: then there is no event,
\* whether the operation was done or not.
SftpFailureReported(operation, failing) ==
    LET error == SftpCall(operation, failing)
    IN  IF failing = {} THEN error = <<>>
        ELSE HandleError(error, 0) =
                 CASE "open" \in failing          -> "AUTH_ERROR"
                   [] failing = {"operation"}     -> OperationEvent(operation)
                   [] OTHER                       -> None
=============================================================================
