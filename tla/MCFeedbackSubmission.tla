----------------------- MODULE MCFeedbackSubmission -----------------------
(* FeedbackSubmission with one agent, its owner and two counterparties.     *)
EXTENDS FeedbackSubmission

CONSTANTS feedback, feedbackPublic, reputation, alice, bob, a1, t1

MCMode ==
    [s \in Schemas |-> IF s = feedback THEN "dual" ELSE "counterparty"]

Base == [schema |-> feedback, agent |-> a1, task |-> t1, party |-> bob, signer |-> alice,
         signs |-> "interaction", cosigned |-> TRUE, message |-> TRUE, fits |-> "dual"]

MCRequests ==
    LET with(api, r) == [f \in DOMAIN r \cup {"api"} |-> IF f = "api" THEN api ELSE r[f]]
        public == [Base EXCEPT !.schema = feedbackPublic, !.signer = bob, !.signs = "siws",
                               !.cosigned = FALSE, !.fits = "single"]
    IN  {with("create", Base), with("build", Base),
         with("validate", [Base EXCEPT !.fits = "single"]),
         with("worker", public), with("worker", Base),
         with("worker", [Base EXCEPT !.message = FALSE]),
         with("score", [Base EXCEPT !.schema = reputation, !.signer = bob,
                                    !.cosigned = FALSE, !.message = FALSE])}
=============================================================================
