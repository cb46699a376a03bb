-------------------------- MODULE GovernanceRules --------------------------
(***************************************************************************)
(* The creator_publishing rule pack as pure operators: what one evaluation *)
(* of an asset answers, given the author's profile and the edition it read *)
(* (creator/predicates.py, policy/engine.py and the label mapping of       *)
(* creator/service.py).  The pack's rules have no condition and no control *)
(* answer, so the engine's other states do not occur for them.             *)
(*                                                                         *)
(* An asset's text is reduced to what the predicates find in it, a profile *)
(* to the answers they take from it, an edition to its platform metadata.  *)
(***************************************************************************)
EXTENDS Integers

Issues == {"contact", "guarantee", "offVoice"}

Authors == [
    owned    : BOOLEAN,    \* rights is one of OWNED_RIGHTS
    declared : BOOLEAN,    \* pii_declared or named_third_parties_declared
    strict   : BOOLEAN,    \* prohibited topics or preferred terms are set
    imprint  : {"none", "own", "marketplace"}]    \* publisher_name, else display_name

Editions == [
    format    : {"paperback", "hardcover", "print", "ebook"},    \* free text
    isbn      : BOOLEAN,
    publisher : {"none", "own", "other", "marketplace"}]    \* its publisher_field

NoEdition == [format |-> "none", isbn |-> FALSE, publisher |-> "none"]

Rules == {"rights", "privacy", "claim", "voice", "platform"}
ReviewRules == {"claim", "voice"}
Labels == {"block", "review", "allow"}

IsbnMissing(edition) ==
    edition.format \in {"paperback", "hardcover", "print"} /\ ~edition.isbn

(* platform_metadata_ok takes the publisher field, then the profile's;     *)
(* nothing, a marketplace, or a name that is not the author's is refused.  *)
Publisher(author, edition) ==
    IF edition.publisher # "none" THEN edition.publisher ELSE author.imprint

PlatformOk(author, edition) ==
    ~IsbnMissing(edition) /\ Publisher(author, edition) = "own"

(* The rules an asset with these issues fails, before _map_governance. *)
Failed(issues, author, edition) ==
    {rule \in Rules :
        \/ rule = "rights" /\ ~author.owned
        \/ rule = "privacy" /\ "contact" \in issues /\ ~author.declared
        \/ rule = "claim" /\ "guarantee" \in issues
        \/ rule = "voice" /\ "offVoice" \in issues /\ author.strict
        \/ rule = "platform" /\ ~PlatformOk(author, edition)}

(* _map_governance turns some of the failures into partial answers. *)
Softened(rule, edition) ==
    rule \in ReviewRules \/ (rule = "platform" /\ ~IsbnMissing(edition))

Label(issues, author, edition) ==
    LET failed == Failed(issues, author, edition) IN
    IF \E rule \in failed : ~Softened(rule, edition) THEN "block"
    ELSE IF failed # {} THEN "review"
    ELSE "allow"

(* The edition evaluate_asset judges by: the oldest paperback, else the    *)
(* oldest edition, else none.  editions maps the book's editions, numbered *)
(* by created_at, to their metadata.                                       *)
Evaluated(editions) ==
    LET paperbacks == {e \in DOMAIN editions : editions[e].format = "paperback"}
        among == IF paperbacks # {} THEN paperbacks ELSE DOMAIN editions
    IN  IF among = {} THEN NoEdition
        ELSE editions[CHOOSE e \in among : \A f \in among : e <= f]
=============================================================================
