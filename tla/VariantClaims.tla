---------------------------- MODULE VariantClaims ----------------------------
(***************************************************************************)
(* Package pkg/claims: the variant payloads, their Validate methods and    *)
(* the mappings of national assurance levels to eIDAS levels.              *)
(*                                                                         *)
(* A string field that Validate only compares with "" is a BOOLEAN ("is    *)
(* it filled in").  A level is its Go constant's last word, "" when it was *)
(* left out, "unknown" for any string that is no constant.  The optional   *)
(* attributes, which no check reads, are left out.                         *)
(***************************************************************************)
EXTENDS Errors

LoAs        == {"low", "substantial", "high"}                  \* a.Valid()
DigiDLevels == {"basis", "midden", "substantieel", "hoog"}     \* l.Valid()
EHClasses   == {"loa2", "loa2plus", "loa3", "loa4"}            \* c.Valid()

\* A string that may be any of the known ones, missing, or something else.
Stated(known) == known \union {"", "unknown"}

\* DigiDLevel.EIDAS and EHerkenningAssuranceClass.EIDAS: total, low by default.
DigiDToEIDAS(level) ==
  CASE level = "substantieel" -> "substantial"
    [] level = "hoog"         -> "high"
    [] OTHER                  -> "low"

EHToEIDAS(class) ==
  CASE class = "loa3" -> "substantial"
    [] class = "loa4" -> "high"
    [] OTHER          -> "low"

-----------------------------------------------------------------------------
(* The payloads.  "date" is any string time.Parse("2006-01-02") accepts.   *)

EIDASClaims ==
  [kind : {"eidas"}, PersonIdentifier : BOOLEAN, FamilyName : BOOLEAN,
   GivenName : BOOLEAN, DateOfBirth : {"", "date", "other"}]

DigiDClaims ==
  [kind : {"digid"}, BSN : BOOLEAN, Pseudonym : BOOLEAN,
   AssuranceLevel : Stated(DigiDLevels)]

EHerkenningClaims ==
  [kind : {"eherkenning"}, OIN : BOOLEAN, KvK : BOOLEAN, RSIN : BOOLEAN,
   ActingSubjectID : BOOLEAN, AssuranceClass : Stated(EHClasses)]

(* A caller's own payload: whether its type has a Validate method, what it *)
(* would answer for this content, and whether json.Marshal accepts it.     *)
CustomClaims ==
  [kind : {"custom"}, validates : BOOLEAN, valid : BOOLEAN, marshals : BOOLEAN]

\* The nil interface value: a custom token without a payload.
NoClaims == [kind |-> "nil"]

BuiltInClaims == EIDASClaims \union DigiDClaims \union EHerkenningClaims

Claims == BuiltInClaims \union CustomClaims \union {NoClaims}

-----------------------------------------------------------------------------
EIDASValidate(e) == FirstError(<<
  When(~ e.PersonIdentifier,      "ErrMissingPersonIdentifier"),
  When(~ e.FamilyName,            "ErrMissingFamilyName"),
  When(~ e.GivenName,             "ErrMissingGivenName"),
  When(e.DateOfBirth = "",        "ErrMissingDateOfBirth"),
  When(e.DateOfBirth # "date",    "ErrInvalidDateOfBirth")>>)

DigiDValidate(d) == FirstError(<<
  When(~ d.BSN /\ ~ d.Pseudonym,            "ErrMissingDigiDIdentifier"),
  When(d.AssuranceLevel = "",               "ErrMissingDigiDLevel"),
  When(d.AssuranceLevel \notin DigiDLevels, "ErrInvalidAssuranceLevel")>>)

EHerkenningValidate(e) == FirstError(<<
  When(~ e.OIN /\ ~ e.KvK /\ ~ e.RSIN,    "ErrMissingEHEntity"),
  When(~ e.ActingSubjectID,               "ErrMissingEHActingSubject"),
  When(e.AssuranceClass = "",             "ErrMissingEHAssurance"),
  When(e.AssuranceClass \notin EHClasses, "ErrInvalidAssuranceLevel")>>)

(* payload.(interface{ Validate() error }): the built-in structs have the  *)
(* method, a caller's type may, and nil satisfies no interface.            *)
Validate(p) ==
  CASE p.kind = "eidas"       -> EIDASValidate(p)
    [] p.kind = "digid"       -> DigiDValidate(p)
    [] p.kind = "eherkenning" -> EHerkenningValidate(p)
    [] p.kind = "custom"      -> When(p.validates /\ ~ p.valid, "ErrCustomInvalid")
    [] OTHER                  -> NoError

\* json.Marshal(variant): plain structs of strings always marshal.
Marshals(p) == p.kind = "custom" => p.marshals
=============================================================================
