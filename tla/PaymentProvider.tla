-------------------------- MODULE PaymentProvider --------------------------
(***************************************************************************)
(* The payment provider behind the API (packages/solana/src and the mock   *)
(* of apps/api/src/platform/providers): what the customer is asked to pay, *)
(* and how a verification reads a chain that moves between its calls.      *)
(*                                                                         *)
(* A signature names a transaction: transfers and whether it mentions the  *)
(* intent's reference.  It lands "processed", may be dropped with its      *)
(* fork, and is "confirmed" and "finalized" for good.  Every RPC may time  *)
(* out or fail, and a node may not have the transaction yet.  The          *)
(* configured provider may be redeployed with another wallet or price      *)
(* while an intent is open.  One intent; its reference is random and its   *)
(* memo carries the amount; base58, URLs and wording are left out.         *)
(***************************************************************************)
EXTENDS Naturals, SequencesExt

CONSTANTS
  Signature,        \* transaction signatures
  Content,          \* what a transaction may hold: [transfers, mentions]
  Config,           \* deployments of the provider: [wallet, lamports]
  OrderAmount,      \* deposit of the booking, in VND: what the mock asks
  CandidateLimit,   \* signatures asked of the RPC node: 10 in the code
  MaxDeploys,       \* bound: redeployments
  MaxRequests       \* bound: verifications asked

Transfer == [to : STRING, lamports : Nat]

ASSUME ProviderAssumption ==
  /\ \A c \in Config : c.lamports \in Nat \ {0}
  /\ \A c \in Content : c.transfers \in Seq(Transfer)
  /\ CandidateLimit \in Nat \ {0}

VARIABLES
  config,       \* the provider's options
  commitment,   \* the confirmation it requires
  intent,       \* recipient, scheme and amount of the memo, as persisted
  shown,        \* what the customer was last asked to pay
  chain,        \* the transactions, by signature
  ledger,       \* those that landed, in order
  check,        \* a verification between two calls
  answer,       \* the last verification's result
  spent         \* redeployments and verifications so far

paymentVars ==
  <<config, commitment, intent, shown, chain, ledger, check, answer, spent>>

Absent == [stage |-> "absent"]
NoIntent == [scheme |-> "none"]
NotChecking == [pc |-> "idle"]
NoAnswer == [status |-> "NONE"]
NoResult == [status |-> "NONE"]
MockWallet == "mock-recipient-wallet"
RpcError == {"SOLANA_RPC_TIMEOUT", "SOLANA_RPC_UNAVAILABLE"}

Result(status, sig, code) == [status |-> status, sig |-> sig, code |-> code]
-----------------------------------------------------------------------------
(* providerMatchesMemo, restoreProviderIntent: mock memos to the mock.     *)
MatchesMemo(provider) ==
  intent.scheme = (IF provider = "mock" THEN "mock" ELSE "ctc:v1")

(* Mutant: the price of today's deployment, whatever the memo says. *)
PaymentRequestOfToday(provider, persisted) ==
  IF provider = "mock" THEN [wallet |-> persisted.wallet, amount |-> OrderAmount]
  ELSE [wallet |-> persisted.wallet, amount |-> config.lamports]

(* createIntent of a persisted intent: the memo is the price. *)
PaymentRequest(provider, persisted) ==
  [wallet |-> persisted.wallet,
   amount |-> IF provider = "mock" THEN OrderAmount ELSE persisted.amount]

(* createIntent of a new one, and the row that keeps it. *)
CreateIntent(provider) ==
  /\ intent = NoIntent
  /\ intent' = IF provider = "mock"
               THEN [scheme |-> "mock", wallet |-> MockWallet, amount |-> OrderAmount]
               ELSE [scheme |-> "ctc:v1", wallet |-> config.wallet,
                     amount |-> config.lamports]
  /\ shown' = PaymentRequest(provider, intent')
  /\ UNCHANGED <<config, commitment, chain, ledger, check, answer, spent>>

(* The same request again: 409 from the other provider. *)
RestoreIntent(provider) ==
  /\ intent # NoIntent
  /\ MatchesMemo(provider)
  /\ shown' = PaymentRequest(provider, intent)
  /\ UNCHANGED <<config, commitment, intent, chain, ledger, check, answer, spent>>

(* The process restarts with other options; its verification is gone.      *)
Redeploy ==
  /\ spent.deploys < MaxDeploys
  /\ spent' = [spent EXCEPT !.deploys = @ + 1]
  /\ config' \in Config \ {config}
  /\ check' = NotChecking
  /\ UNCHANGED <<commitment, intent, shown, chain, ledger, answer>>
-----------------------------------------------------------------------------
(***************************************************************************)
(* The chain.                                                              *)
(***************************************************************************)
OnChain(s) == chain[s].stage \in {"processed", "confirmed", "finalized"}

(* A signature signs one content; whether it fails depends on the fork.    *)
Land(s, content, err) ==
  /\ \/ chain[s] = Absent
     \/ chain[s].stage = "dropped" /\ chain[s].content = content
  /\ chain' = [chain EXCEPT ![s] = [stage |-> "processed", err |-> err, content |-> content]]
  /\ ledger' = Append(ledger, s)

Drop(s) ==
  /\ chain[s].stage = "processed"
  /\ chain' = [chain EXCEPT ![s].stage = "dropped"]
  /\ \E i \in DOMAIN ledger : ledger[i] = s /\ ledger' = RemoveAt(ledger, i)

Advance(s) ==
  /\ chain[s].stage \in {"processed", "confirmed"}
  /\ chain' = [chain EXCEPT ![s].stage =
                 IF @ = "processed" THEN "confirmed" ELSE "finalized"]
  /\ UNCHANGED ledger

(* The customer pays once asked. *)
ChainMoves ==
  /\ intent.scheme = "ctc:v1"
  /\ \E s \in Signature :
       \/ \E c \in Content, err \in BOOLEAN : Land(s, c, err)
       \/ Drop(s)
       \/ Advance(s)
  /\ UNCHANGED <<config, commitment, intent, shown, check, answer, spent>>
-----------------------------------------------------------------------------
(***************************************************************************)
(* verifyDevnetPayment.                                                    *)
(***************************************************************************)
IsCommitmentSatisfied(actual, required) ==
  IF required = "finalized" THEN actual = "finalized"
  ELSE actual \in {"confirmed", "finalized"}

MatchingTransfers(content, wallet) ==
  {i \in DOMAIN content.transfers : content.transfers[i].to = wallet}

ObservedAmount(content, wallet) ==
  LET transfers == content.transfers
      upTo[n \in 0 .. Len(transfers)] ==
        IF n = 0 THEN 0
        ELSE upTo[n - 1] + (IF transfers[n].to = wallet THEN transfers[n].lamports ELSE 0)
  IN  upTo[Len(transfers)]

(* The recipient, then the amount of all its transfers, then the reference. *)
ContentVerdict(s, content) ==
  IF MatchingTransfers(content, intent.wallet) = {}
  THEN Result("REJECTED", s, "PAYMENT_RECIPIENT_MISMATCH")
  ELSE IF ObservedAmount(content, intent.wallet) # intent.amount
  THEN Result("REJECTED", s, "PAYMENT_AMOUNT_MISMATCH")
  ELSE IF ~content.mentions THEN Result("REJECTED", s, "PAYMENT_REFERENCE_MISMATCH")
  ELSE Result("CONFIRMED", s, "")

(* Mutant: one refused candidate is enough to refuse the payment. *)
ChosenRejectedFirst(pending, rejected) == IF rejected # NoResult THEN rejected ELSE pending

(* The answer of a verification by signature is the result itself; a       *)
(* discovery goes through its candidates, stops at the first confirmed     *)
(* one, and else prefers the first that may still become so.               *)
Chosen(pending, rejected) == IF pending # NoResult THEN pending ELSE rejected

Answered(result) ==
  /\ answer' = [provider |-> "solana_devnet", found |-> check.found,
                status |-> result.status, sig |-> result.sig, code |-> result.code]
  /\ check' = NotChecking

Settle(result) ==
  LET pending == IF result.status \in {"PENDING", "FAILED"} /\ check.pending = NoResult
                 THEN result ELSE check.pending
      rejected == IF result.status = "REJECTED" /\ check.rejected = NoResult
                  THEN result ELSE check.rejected
  IN  IF check.found = <<>> \/ result.status = "CONFIRMED" THEN Answered(result)
      ELSE IF Len(check.left) = 1 THEN Answered(Chosen(pending, rejected))
      ELSE /\ check' = [check EXCEPT !.pc = "status", !.left = Tail(@),
                                     !.pending = pending, !.rejected = rejected]
           /\ UNCHANGED answer

ReadStatus ==
  LET s == Head(check.left)
      tx == chain[s]
  IN  /\ check.pc = "status"
      /\ \/ \E code \in RpcError : Settle(Result("FAILED", s, code))
         \/ Settle(Result("PENDING", s, "PAYMENT_TRANSACTION_NOT_FOUND"))
         \/ /\ OnChain(s)
            /\ IF tx.err
               THEN Settle(Result("REJECTED", s, "PAYMENT_TRANSACTION_FAILED"))
               ELSE IF ~IsCommitmentSatisfied(tx.stage, commitment)
               THEN Settle(Result("PENDING", s, "PAYMENT_TRANSACTION_UNCONFIRMED"))
               ELSE /\ check' = [check EXCEPT !.pc = "transaction"]
                    /\ UNCHANGED answer
      /\ UNCHANGED <<config, commitment, intent, shown, chain, ledger, spent>>

ReadTransaction ==
  LET s == Head(check.left)
      tx == chain[s]
  IN  /\ check.pc = "transaction"
      /\ \/ \E code \in RpcError : Settle(Result("FAILED", s, code))
         \/ Settle(Result("PENDING", s, "PAYMENT_TRANSACTION_NOT_FOUND"))
         \/ /\ OnChain(s)
            /\ IF tx.err THEN Settle(Result("REJECTED", s, "PAYMENT_TRANSACTION_FAILED"))
               ELSE Settle(ContentVerdict(s, tx.content))
      /\ UNCHANGED <<config, commitment, intent, shown, chain, ledger, spent>>
-----------------------------------------------------------------------------
(***************************************************************************)
(* verifyPayment.                                                          *)
(***************************************************************************)
(* The mock believes the claim it is given, if it is complete and right.   *)
MockVerdict(claim) ==
  IF claim.amount # OrderAmount THEN Result("REJECTED", "", "PAYMENT_AMOUNT_MISMATCH")
  ELSE IF claim.wallet # intent.wallet THEN Result("REJECTED", "", "PAYMENT_RECIPIENT_MISMATCH")
  ELSE IF ~claim.mentions THEN Result("REJECTED", "", "PAYMENT_REFERENCE_MISMATCH")
  ELSE Result("CONFIRMED", "", "")

Ask ==
  /\ spent.requests < MaxRequests
  /\ spent' = [spent EXCEPT !.requests = @ + 1]
  /\ intent # NoIntent
  /\ check = NotChecking
  /\ UNCHANGED <<config, commitment, intent, shown, chain, ledger>>

AskMock(claim) ==
  /\ Ask
  /\ MatchesMemo("mock")
  /\ LET result == MockVerdict(claim)
     IN  answer' = [provider |-> "mock", claim |-> claim,
                    status |-> result.status, code |-> result.code]
  /\ UNCHANGED check

Checking(pc, left, found) ==
  [pc |-> pc, left |-> left, found |-> found, pending |-> NoResult, rejected |-> NoResult]

AskBySignature(s) ==
  /\ Ask
  /\ MatchesMemo("solana_devnet")
  /\ check' = Checking("status", <<s>>, <<>>)
  /\ UNCHANGED answer

AskByReference ==
  /\ Ask
  /\ MatchesMemo("solana_devnet")
  /\ check' = Checking("list", <<>>, <<>>)
  /\ UNCHANGED answer

(* getSignaturesForAddress: the newest first, and no more than the limit.  *)
Known ==
  {i \in DOMAIN ledger : /\ chain[ledger[i]].content.mentions
                        /\ IsCommitmentSatisfied(chain[ledger[i]].stage, commitment)}

Candidates ==
  [k \in 1 .. Min({CandidateLimit, Cardinality(Known)}) |->
     ledger[CHOOSE i \in Known : 1 + Cardinality({j \in Known : j > i}) = k]]

ListCandidates ==
  /\ check.pc = "list"
  /\ \/ \E code \in RpcError : Answered(Result("FAILED", "", code))
     \/ /\ Candidates = <<>>
        /\ Answered(Result("PENDING", "", "PAYMENT_TRANSACTION_NOT_FOUND"))
     \/ /\ Candidates # <<>>
        /\ check' = Checking("status", Candidates, Candidates)
        /\ UNCHANGED answer
  /\ UNCHANGED <<config, commitment, intent, shown, chain, ledger, spent>>
=============================================================================
