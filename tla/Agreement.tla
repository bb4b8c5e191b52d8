----------------------------- MODULE Agreement -----------------------------
(***************************************************************************)
(* The canonical form of a locked agreement and the proof that rests on    *)
(* it (packages/domain/src/agreement, create-locked-agreement.ts,          *)
(* verify-receipt-tamper.ts).  SHA-256 is taken to be injective, so a hash *)
(* is the text it was taken of, and a text is the sequence of its keys and *)
(* values: what distinguishes two texts of one payload is their key order. *)
(***************************************************************************)
EXTENDS Naturals, Sequences

(* Keys sorted as stableStringify sorts them, by code unit. *)
CanonicalOrder ==
  [top |-> <<"agreementVersion", "bookingId", "canonicalizationVersion", "commercialTerms",
             "service">>,
   commercialTerms |-> <<"currency", "depositAmountVnd", "fareTotalVnd",
                         "refundPolicySummary", "refundPolicyVersion">>,
   service |-> <<"departureAt", "holdExpiresAt", "inventoryReservationId", "passengerCount",
                 "pickupPoint", "routeFrom", "routeTo">>]

(* PostgreSQL keeps the keys of a JSONB object by length, then by byte. *)
StoredOrder ==
  [top |-> <<"service", "bookingId", "commercialTerms", "agreementVersion",
             "canonicalizationVersion">>,
   commercialTerms |-> <<"currency", "fareTotalVnd", "depositAmountVnd",
                         "refundPolicySummary", "refundPolicyVersion">>,
   service |-> <<"routeTo", "routeFrom", "departureAt", "pickupPoint", "holdExpiresAt",
                 "passengerCount", "inventoryReservationId">>]

(* serializeCanonicalAgreement: what is hashed of an agreement.  The       *)
(* customer's acknowledgement and the creation time stay out of it.        *)
CanonicalPayload(bookingId, version, b, holdId, holdExpiresAt) ==
  [agreementVersion |-> version,
   bookingId |-> bookingId,
   canonicalizationVersion |-> "v1",
   commercialTerms |->
     [currency |-> "VND", depositAmountVnd |-> b.depositAmount, fareTotalVnd |-> b.totalAmount,
      refundPolicySummary |-> "REFUND_POLICY_SUMMARY",
      refundPolicyVersion |-> b.refundPolicy],
   service |->
     [departureAt |-> b.departureAt, holdExpiresAt |-> holdExpiresAt,
      inventoryReservationId |-> holdId, passengerCount |-> b.passengerCount,
      pickupPoint |-> b.pickupPoint, routeFrom |-> b.routeFrom, routeTo |-> b.routeTo]]

Members(object, keys) == [n \in DOMAIN keys |-> <<keys[n], object[keys[n]]>>]

(* JSON.stringify of a payload whose keys come in this order. *)
Serialized(payload, order) ==
  Members([key \in DOMAIN payload |->
             CASE key = "commercialTerms" -> Members(payload[key], order.commercialTerms)
               [] key = "service"         -> Members(payload[key], order.service)
               [] OTHER                   -> payload[key]],
          order.top)

(* createLockedAgreement: the hash of the canonical text; the payload goes *)
(* into a JSONB column.                                                    *)
PayloadHash(payload) == Serialized(payload, CanonicalOrder)

(* verifyReceiptTamper: the stored payload with the deposit it is asked    *)
(* about, stringified as it came back from the column.                     *)
CandidateHash(payload, deposit) ==
  Serialized([payload EXCEPT !.commercialTerms.depositAmountVnd = deposit], StoredOrder)

ProofMatches(payload, deposit) == CandidateHash(payload, deposit) = PayloadHash(payload)
=============================================================================
