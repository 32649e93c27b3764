--------------------------- MODULE OperationResult ---------------------------
(***************************************************************************)
(* src/app/Entities/OperationResult.h: what repositories return.  The      *)
(* accessor of the wrong alternative throws std::logic_error.              *)
(***************************************************************************)

SuccessResult(result) == [status |-> "Success", result |-> result]
FailureResult(errorMessage) == [status |-> "Failure", errorMessage |-> errorMessage]

IsSuccess(r) == r.status = "Success"

LogicError == [threw |-> "logic_error"]
GetResult(r) == IF IsSuccess(r) THEN r.result ELSE LogicError
GetErrorMessage(r) == IF IsSuccess(r) THEN LogicError ELSE r.errorMessage
===============================================================================
