------------------------------- MODULE Errors -------------------------------
(***************************************************************************)
(* The error style of the library: a function runs its checks in order and *)
(* returns the first error.  An error is the name of its Go variable, or a *)
(* short name where the code builds it on the spot with fmt.Errorf.        *)
(***************************************************************************)
EXTENDS Naturals, Sequences

NoError == "nil"

\* The error of `if cond { return err }`.
When(cond, err) == IF cond THEN err ELSE NoError

\* The outcome of a chain of checks: the first that fails decides.
FirstError(errs) ==
  LET failing == {i \in DOMAIN errs : errs[i] # NoError}
  IN  IF failing = {}
      THEN NoError
      ELSE errs[CHOOSE i \in failing : \A j \in failing : i <= j]
=============================================================================
