------------------------- MODULE SignedCampaignProofs -------------------------
(* Proofs about SignedCampaign: for any number of deliveries, stops and    *)
(* kills, a campaign that passes has proved one review, and one that meets *)
(* an idle, healthy service passes.                                        *)
EXTENDS SignedCampaign, TLAPS

(* A step of the service or of GitHub.                                     *)
ServiceStep ==
  \/ Start \/ Trouble
  \/ \E d \in Deliveries : Send(d) \/ Normal(d)

(* An update rewrites the body of the one comment, or nothing.             *)
LEMMA UpdateKeepsAuthors ==
  ASSUME ServiceTypeOK, NEW d \in Deliveries, Update(d)
  PROVE  /\ \A c \in comments' : \E b \in comments : b.by = c.by /\ b.late = c.late
         /\ \A b \in comments : \E c \in comments' : b.by = c.by /\ b.late = c.late
<1>1. CASE UNCHANGED comments
  BY <1>1
<1>2. CASE comments' = {[c EXCEPT !.body = result[d]] : c \in comments}
  <2>1. \A c \in comments : LET b == [c EXCEPT !.body = result[d]]
                           IN  b \in comments' /\ b.by = c.by /\ b.late = c.late
    BY <1>2 DEF ServiceTypeOK
  <2>2. \A b \in comments' : \E c \in comments : b = [c EXCEPT !.body = result[d]]
    BY <1>2
  <2>3. QED
    BY <2>1, <2>2
<1>3. QED
  BY <1>1, <1>2 DEF Update, Rewrites, Goes

(* A create that lands adds a comment of a review that sent it.            *)
LEMMA Landed ==
  ASSUME ServiceTypeOK, Lands
  PROVE  \E d \in inFlight : \E c \in [by : {d}, body : Bodies, late : BOOLEAN] :
           /\ c.late <=> work[d] # "recheck"
           /\ comments' = comments \cup {c}
           /\ inFlight' = inFlight \ {d}
<1>1. PICK d \in inFlight : /\ comments' = comments \cup {Comment(d, work[d] # "recheck")}
                           /\ inFlight' = inFlight \ {d}
  BY DEF Lands
<1>2. PICK late \in BOOLEAN : late = (work[d] # "recheck")
  OBVIOUS
<1>3. Comment(d, late) \in [by : {d}, body : Bodies, late : BOOLEAN]
  BY DEF Comment, ServiceTypeOK
<1>4. Comment(d, late).late = late
  BY DEF Comment
<1>5. QED
  BY <1>1, <1>2, <1>3, <1>4

(* A create that is answered adds a comment of its own review.             *)
LEMMA Created ==
  ASSUME ServiceTypeOK, NEW d \in Deliveries, Create(d)
  PROVE  \E c \in [by : Deliveries, body : Bodies, late : BOOLEAN] :
           c.by = d /\ ~c.late /\ comments' = comments \cup {c}
<1>1. Comment(d, FALSE) \in [by : Deliveries, body : Bodies, late : BOOLEAN]
  BY DEF Comment, ServiceTypeOK
<1>2. Comment(d, FALSE).by = d /\ ~Comment(d, FALSE).late
  BY DEF Comment
<1>3. QED
  BY <1>1, <1>2 DEF Create

(* The records at the end of a run.                                        *)
LEMMA Ended ==
  ASSUME NEW d \in Deliveries, NEW ended, RunEnds(d, ended)
  PROVE  \E told \in SUBSET {"cleanup", "publication"} :
           /\ "cleanup" \in told => d \notin onHost
           /\ work[d] \in Dispositions => "cleanup" \in told
           /\ "publication" \in told <=> work[d] \in {"created", "reconciled"}
           /\ journal' = [journal EXCEPT ![d] = @ \cup told]
<1>1. PICK cleanup \in SUBSET {"cleanup"} :
        /\ cleanup # {} => d \notin onHost
        /\ work[d] \in Dispositions => cleanup # {}
        /\ Emit(d, cleanup \cup IF work[d] \in {"created", "reconciled"}
                                THEN {"publication"} ELSE {})
  BY DEF RunEnds
<1> DEFINE told == cleanup \cup IF work[d] \in {"created", "reconciled"}
                                THEN {"publication"} ELSE {}
<1>2. cleanup = {} \/ cleanup = {"cleanup"}
  BY <1>1
<1>3. /\ told \in SUBSET {"cleanup", "publication"}
      /\ "cleanup" \in told => d \notin onHost
      /\ work[d] \in Dispositions => "cleanup" \in told
      /\ "publication" \in told <=> work[d] \in {"created", "reconciled"}
  BY <1>1, <1>2
<1>4. journal' = [journal EXCEPT ![d] = @ \cup told]
  BY <1>1 DEF Emit
<1>5. QED
  BY <1>3, <1>4

(* The records of a review that created its comment.                       *)
LEMMA BothTold ==
  ASSUME NEW told \in SUBSET {"cleanup", "publication"},
         "cleanup" \in told, "publication" \in told
  PROVE  told = {"cleanup", "publication"}
<1>1. \A e : e \in told <=> e \in {"cleanup", "publication"}
  OBVIOUS
<1>2. QED
  BY <1>1, Zenon

(* A step of the service keeps the types.                                  *)
LEMMA ServiceTypes ==
  ASSUME ServiceTypeOK, ServiceStep
  PROVE  ServiceTypeOK'
<1> USE DEF ServiceTypeOK, Claimed, Live, Dispositions, Events, Bodies, serviceVars, front, github
<1>1. ASSUME Start PROVE ServiceTypeOK'
  BY <1>1 DEF Start
<1>2. ASSUME StartFails \/ Drained PROVE ServiceTypeOK'
  BY <1>2 DEF StartFails, Drained
<1>3. ASSUME Stop PROVE ServiceTypeOK'
  <2>1. outages' \in 0..MaxOutages
    BY <1>3, ServiceAssumption DEF Stop
  <2>2. QED
    BY <1>3, <2>1 DEF Stop
<1>4. ASSUME Kill PROVE ServiceTypeOK'
  <2>1. outages' \in 0..MaxOutages
    BY <1>4, ServiceAssumption DEF Kill
  <2>2. delivery' \in [Deliveries -> {"unsent", "sent", "answered"} \cup Claimed]
    BY <1>4 DEF Kill
  <2>3. work' \in [Deliveries -> Live \cup {"none", "killed", "over", "succeeded"}]
    BY <1>4 DEF Kill
  <2>4. inFlight' \subseteq Deliveries
    BY <1>4 DEF Kill
  <2>5. QED
    BY <1>4, <2>1, <2>2, <2>3, <2>4 DEF Kill
<1>5. ASSUME NEW d \in Deliveries,
             Send(d) \/ Refused(d) \/ Claim(d) \/ AlreadyReviewed(d) \/ Cleared(d) \/ Declined(d)
      PROVE  ServiceTypeOK'
  BY <1>5 DEF Send, Refused, Claim, AlreadyReviewed, Cleared, Declined, Answer
<1>6. ASSUME NEW d \in Deliveries, PreflightFails(d) \/ Accept(d) PROVE ServiceTypeOK'
  BY <1>6 DEF PreflightFails, Accept, Answer, Goes, Emit
<1>7. ASSUME NEW d \in Deliveries,
             Allocate(d) \/ ReviewFails(d) \/ \E b \in Bodies : Review(d, b)
      PROVE  ServiceTypeOK'
  BY <1>7 DEF Allocate, ReviewFails, Review, Goes
<1>8. ASSUME NEW d \in Deliveries, Create(d) PROVE ServiceTypeOK'
  <2>1. comments' \subseteq [by : Deliveries, body : Bodies, late : BOOLEAN]
    BY <1>8, Created
  <2>2. QED
    BY <1>8, <2>1 DEF Create, Goes
<1>9. ASSUME NEW d \in Deliveries, Update(d) PROVE ServiceTypeOK'
  BY <1>9 DEF Update, Rewrites, Current, Single, Goes
<1>10. ASSUME NEW d \in Deliveries,
              ScanNone(d) \/ CreateLost(d) \/ Reconcile(d) \/ PublicationFails(d)
       PROVE  ServiceTypeOK'
  BY <1>10 DEF ScanNone, CreateLost, Reconcile, Current, Single, PublicationFails, Goes
<1>11. ASSUME Lands PROVE ServiceTypeOK'
  BY <1>11, Landed DEF Lands, Comment
<1>12. ASSUME NEW d \in Deliveries,
              RunEnds(d, "closing") \/ RunEnds(d, "closing_failed")
       PROVE  ServiceTypeOK'
  <2>1. journal' \in [Deliveries -> SUBSET Events]
    <3>1. PICK told \in SUBSET {"cleanup", "publication"} :
            journal' = [journal EXCEPT ![d] = @ \cup told]
      BY <1>12, Ended
    <3>2. QED
      BY <3>1
  <2>2. QED
    BY <1>12, <2>1 DEF RunEnds, Goes
<1>13. ASSUME NEW d \in Deliveries, TerminalRelease(d) PROVE ServiceTypeOK'
  BY <1>13 DEF TerminalRelease, Goes, Emit
<1>14. QED
  BY <1>1, <1>2, <1>3, <1>4, <1>5, <1>6, <1>7, <1>8, <1>9, <1>10, <1>11, <1>12, <1>13
     DEF ServiceStep, Trouble, Normal, Bodies

(* A review needs the claim, and a preflight that met no comment.          *)
LEMMA ServiceKeepsOne ==
  ASSUME ServiceTypeOK, OneReview, ServiceStep
  PROVE  OneReview'
<1> USE DEF ServiceTypeOK, OneReview, Under, Published, Held, Claimed, Live, Dispositions,
        serviceVars, front, github
<1>1. ASSUME Start PROVE OneReview'
  BY <1>1 DEF Start
<1>2. ASSUME StartFails \/ Drained PROVE OneReview'
  BY <1>2 DEF StartFails, Drained
<1>3. ASSUME Stop PROVE OneReview'
  BY <1>3 DEF Stop
<1>4. ASSUME Kill PROVE OneReview'
  BY <1>4 DEF Kill
<1>5. ASSUME NEW d \in Deliveries,
             Send(d) \/ Refused(d) \/ Claim(d) \/ AlreadyReviewed(d) \/ Cleared(d) \/ Declined(d)
      PROVE  OneReview'
  BY <1>5 DEF Send, Refused, Claim, AlreadyReviewed, Cleared, Declined, Answer
<1>6. ASSUME NEW d \in Deliveries, PreflightFails(d) \/ Accept(d) PROVE OneReview'
  BY <1>6 DEF PreflightFails, Accept, Answer, Goes, Emit
<1>7. ASSUME NEW d \in Deliveries,
             Allocate(d) \/ ReviewFails(d) \/ \E b \in Bodies : Review(d, b)
      PROVE  OneReview'
  BY <1>7 DEF Allocate, ReviewFails, Review, Goes
<1>8. ASSUME NEW d \in Deliveries, Create(d) PROVE OneReview'
  <2>1. PICK c \in [by : Deliveries, body : Bodies, late : BOOLEAN] :
          c.by = d /\ ~c.late /\ comments' = comments \cup {c}
    BY <1>8, Created
  <2>2. \A e \in Deliveries : Under(e) => e = d
    BY <1>8 DEF Create
  <2>3. work' = [work EXCEPT ![d] = "created"] /\ UNCHANGED delivery
    BY <1>8 DEF Create, Goes
  <2>4. work[d] = "creating" /\ \A e \in Deliveries : Under(e)' => Under(e)
    BY <1>8, <2>3 DEF Create
  <2>5. \A b \in comments' : ~b.late => \A e \in Deliveries : Under(e)' => e = b.by
    <3>1. \A b \in comments' : b \in comments \/ b.by = d
      BY <2>1
    <3>2. QED
      BY <2>2, <2>4, <3>1
  <2>6. comments' # {}
    BY <2>1
  <2>7. \A e \in Deliveries : work'[e] = "succeeded" <=> work[e] = "succeeded"
    BY <2>3, <2>4
  <2>8. \A e \in Deliveries : e \in Held' <=> e \in Held
    BY <2>3, <2>4
  <2>9. \A e \in Deliveries : delivery'[e] # "answered" => work'[e] = "none"
    BY <2>3, <2>4
  <2>10. QED
    BY <2>4, <2>5, <2>6, <2>7, <2>8, <2>9
<1>9. ASSUME NEW d \in Deliveries, Update(d) PROVE OneReview'
  BY <1>9, UpdateKeepsAuthors DEF Update, Rewrites, Current, Single, Goes
<1>10. ASSUME NEW d \in Deliveries,
              ScanNone(d) \/ CreateLost(d) \/ Reconcile(d) \/ PublicationFails(d)
       PROVE  OneReview'
  BY <1>10 DEF ScanNone, CreateLost, Reconcile, Current, Single, PublicationFails, Goes
<1>11. ASSUME Lands PROVE OneReview'
  BY <1>11, Landed DEF Lands
<1>12. ASSUME NEW d \in Deliveries,
              RunEnds(d, "closing") \/ RunEnds(d, "closing_failed")
       PROVE  OneReview'
  BY <1>12 DEF RunEnds, Goes, Emit
<1>13. ASSUME NEW d \in Deliveries, TerminalRelease(d) PROVE OneReview'
  BY <1>13 DEF TerminalRelease, Goes, Emit
<1>14. QED
  BY <1>1, <1>2, <1>3, <1>4, <1>5, <1>6, <1>7, <1>8, <1>9, <1>10, <1>11, <1>12, <1>13
     DEF ServiceStep, Trouble, Normal, Bodies

(* The journal is written by the review it is about.                       *)
LEMMA ServiceKeepsJournal ==
  ASSUME ServiceTypeOK, OneReview, JournalIsTrue, ServiceStep
  PROVE  JournalIsTrue'
<1> USE DEF ServiceTypeOK, OneReview, JournalIsTrue, Published, Claimed, Live, Dispositions,
        serviceVars, front, github
<1>1. ASSUME Start PROVE JournalIsTrue'
  BY <1>1 DEF Start
<1>2. ASSUME StartFails \/ Drained PROVE JournalIsTrue'
  BY <1>2 DEF StartFails, Drained
<1>3. ASSUME Stop PROVE JournalIsTrue'
  BY <1>3 DEF Stop
<1>4. ASSUME Kill PROVE JournalIsTrue'
  BY <1>4 DEF Kill
<1>5. ASSUME NEW d \in Deliveries,
             Send(d) \/ Refused(d) \/ Claim(d) \/ AlreadyReviewed(d) \/ Cleared(d) \/ Declined(d)
      PROVE  JournalIsTrue'
  BY <1>5 DEF Send, Refused, Claim, AlreadyReviewed, Cleared, Declined, Answer
<1>6. ASSUME NEW d \in Deliveries, PreflightFails(d) \/ Accept(d) PROVE JournalIsTrue'
  BY <1>6 DEF PreflightFails, Accept, Answer, Goes, Emit
<1>7. ASSUME NEW d \in Deliveries,
             Allocate(d) \/ ReviewFails(d) \/ \E b \in Bodies : Review(d, b)
      PROVE  JournalIsTrue'
  BY <1>7 DEF Allocate, ReviewFails, Review, Goes
<1>8. ASSUME NEW d \in Deliveries, Create(d) PROVE JournalIsTrue'
  BY <1>8 DEF Create, Comment, Goes
<1>9. ASSUME NEW d \in Deliveries, Update(d) PROVE JournalIsTrue'
  BY <1>9 DEF Update, Goes
<1>10. ASSUME NEW d \in Deliveries,
              ScanNone(d) \/ CreateLost(d) \/ Reconcile(d) \/ PublicationFails(d)
       PROVE  JournalIsTrue'
  BY <1>10 DEF ScanNone, CreateLost, Reconcile, Current, Single, PublicationFails, Goes
<1>11. ASSUME Lands PROVE JournalIsTrue'
  BY <1>11 DEF Lands, Comment
<1>12. ASSUME NEW d \in Deliveries,
              RunEnds(d, "closing") \/ RunEnds(d, "closing_failed")
       PROVE  JournalIsTrue'
  BY <1>12 DEF RunEnds, Goes, Emit
<1>13. ASSUME NEW d \in Deliveries, TerminalRelease(d) PROVE JournalIsTrue'
  BY <1>13 DEF TerminalRelease, Goes, Emit
<1>14. QED
  BY <1>1, <1>2, <1>3, <1>4, <1>5, <1>6, <1>7, <1>8, <1>9, <1>10, <1>11, <1>12, <1>13
     DEF ServiceStep, Trouble, Normal, Bodies

(* Whatever starts, does so in a process that runs.                        *)
LEMMA ServiceKeepsOwns ==
  ASSUME ServiceTypeOK, OneReview, ServiceOwns, ServiceStep
  PROVE  ServiceOwns'
<1> USE DEF ServiceTypeOK, ServiceOwns, Held, Claimed, Live, Dispositions, serviceVars, front,
        github
<1>1. ASSUME Start PROVE ServiceOwns'
  BY <1>1 DEF Start
<1>2. ASSUME StartFails \/ Drained PROVE ServiceOwns'
  BY <1>2 DEF StartFails, Drained
<1>3. ASSUME Stop PROVE ServiceOwns'
  BY <1>3 DEF Stop
<1>4. ASSUME Kill PROVE ServiceOwns'
  BY <1>4 DEF Kill
<1>5. ASSUME NEW d \in Deliveries,
             Send(d) \/ Refused(d) \/ Claim(d) \/ AlreadyReviewed(d) \/ Cleared(d) \/ Declined(d)
      PROVE  ServiceOwns'
  BY <1>5 DEF Send, Refused, Claim, AlreadyReviewed, Cleared, Declined, Answer
<1>6. ASSUME NEW d \in Deliveries, PreflightFails(d) \/ Accept(d) PROVE ServiceOwns'
  BY <1>6 DEF PreflightFails, Accept, Answer, Goes, Emit, OneReview
<1>7. ASSUME NEW d \in Deliveries,
             Allocate(d) \/ ReviewFails(d) \/ \E b \in Bodies : Review(d, b)
      PROVE  ServiceOwns'
  BY <1>7 DEF Allocate, ReviewFails, Review, Goes
<1>8. ASSUME NEW d \in Deliveries, Create(d) PROVE ServiceOwns'
  BY <1>8 DEF Create, Comment, Goes
<1>9. ASSUME NEW d \in Deliveries, Update(d) PROVE ServiceOwns'
  BY <1>9 DEF Update, Rewrites, Current, Single, Goes
<1>10. ASSUME NEW d \in Deliveries,
              ScanNone(d) \/ CreateLost(d) \/ Reconcile(d) \/ PublicationFails(d)
       PROVE  ServiceOwns'
  BY <1>10 DEF ScanNone, CreateLost, Reconcile, Current, Single, PublicationFails, Goes
<1>11. ASSUME Lands PROVE ServiceOwns'
  BY <1>11 DEF Lands, Comment
<1>12. ASSUME NEW d \in Deliveries,
              RunEnds(d, "closing") \/ RunEnds(d, "closing_failed")
       PROVE  ServiceOwns'
  BY <1>12 DEF RunEnds, Goes, Emit
<1>13. ASSUME NEW d \in Deliveries, TerminalRelease(d) PROVE ServiceOwns'
  BY <1>13 DEF TerminalRelease, Goes, Emit
<1>14. QED
  BY <1>1, <1>2, <1>3, <1>4, <1>5, <1>6, <1>7, <1>8, <1>9, <1>10, <1>11, <1>12, <1>13
     DEF ServiceStep, Trouble, Normal, Bodies

(* What the campaign has read stays true.                                  *)
LEMMA ServiceKeepsEvidence ==
  ASSUME ServiceTypeOK, OneReview, JournalIsTrue, EvidenceHolds, UNCHANGED campaignVars, ServiceStep
  PROVE  EvidenceHolds'
<1> USE DEF ServiceTypeOK, OneReview, JournalIsTrue, EvidenceHolds, Complete, Admitted, Under,
        Published, Claimed, Live, Dispositions, campaignVars, serviceVars, front, github
<1>1. ASSUME Start PROVE EvidenceHolds'
  BY <1>1 DEF Start
<1>2. ASSUME StartFails \/ Drained PROVE EvidenceHolds'
  BY <1>2 DEF StartFails, Drained
<1>3. ASSUME Stop PROVE EvidenceHolds'
  BY <1>3 DEF Stop
<1>4. ASSUME Kill PROVE EvidenceHolds'
  BY <1>4 DEF Kill
<1>5. ASSUME NEW d \in Deliveries,
             Send(d) \/ Refused(d) \/ Claim(d) \/ AlreadyReviewed(d) \/ Cleared(d) \/ Declined(d)
      PROVE  EvidenceHolds'
  BY <1>5 DEF Send, Refused, Claim, AlreadyReviewed, Cleared, Declined, Answer
<1>6. ASSUME NEW d \in Deliveries, PreflightFails(d) \/ Accept(d) PROVE EvidenceHolds'
  BY <1>6 DEF PreflightFails, Accept, Answer, Goes, Emit
<1>7. ASSUME NEW d \in Deliveries,
             Allocate(d) \/ ReviewFails(d) \/ \E b \in Bodies : Review(d, b)
      PROVE  EvidenceHolds'
  BY <1>7 DEF Allocate, ReviewFails, Review, Goes
<1>8. ASSUME NEW d \in Deliveries, Create(d) PROVE EvidenceHolds'
  BY <1>8 DEF Create, Comment, Goes
<1>9. ASSUME NEW d \in Deliveries, Update(d) PROVE EvidenceHolds'
  BY <1>9, UpdateKeepsAuthors DEF Update, Rewrites, Current, Single, Goes
<1>10. ASSUME NEW d \in Deliveries,
              ScanNone(d) \/ CreateLost(d) \/ Reconcile(d) \/ PublicationFails(d)
       PROVE  EvidenceHolds'
  BY <1>10 DEF ScanNone, CreateLost, Reconcile, Current, Single, PublicationFails, Goes
<1>11. ASSUME Lands PROVE EvidenceHolds'
  BY <1>11 DEF Lands, Comment
<1>12. ASSUME NEW d \in Deliveries,
              RunEnds(d, "closing") \/ RunEnds(d, "closing_failed")
       PROVE  EvidenceHolds'
  BY <1>12 DEF RunEnds, Goes, Emit
<1>13. ASSUME NEW d \in Deliveries, TerminalRelease(d) PROVE EvidenceHolds'
  BY <1>13 DEF TerminalRelease, Goes, Emit
<1>14. QED
  BY <1>1, <1>2, <1>3, <1>4, <1>5, <1>6, <1>7, <1>8, <1>9, <1>10, <1>11, <1>12, <1>13
     DEF ServiceStep, Trouble, Normal, Bodies

-----------------------------------------------------------------------------
(* Steps of the campaign.                                                  *)

CampaignStep == Advance \/ CampaignTrouble

(* The campaign touches the service only where it takes the cursor and     *)
(* where GitHub delivers the event it caused.                              *)
LEMMA CampaignTouches ==
  ASSUME CampaignStep
  PROVE  UNCHANGED serviceVars \/ TakeCursor \/ Send(Reopened)
BY DEF CampaignStep, Advance, CampaignTrouble, RequireService, RequireFresh, RequireCleanHost,
       Close, Reopen, Poll, Verify, ReadJournal, CheckResources, Sleep, Expire, NotReady, Raises,
       CloseRaises, ReopenRaises, PollRaises, Redaction, OthersOnHost

(* A step of the campaign keeps what is said of the service: it starts the *)
(* journal anew, sends a delivery, or touches nothing of it.               *)
LEMMA CampaignKeepsService ==
  ASSUME ServiceTypeOK, ServiceOwns, OneReview, JournalIsTrue, CampaignStep
  PROVE  ServiceTypeOK' /\ ServiceOwns' /\ OneReview' /\ JournalIsTrue'
<1>1. CASE UNCHANGED serviceVars
  BY <1>1 DEF ServiceTypeOK, ServiceOwns, OneReview, JournalIsTrue, Held, Under,
              serviceVars, front, github
<1>2. CASE TakeCursor
  BY <1>2 DEF TakeCursor, ServiceTypeOK, ServiceOwns, OneReview, JournalIsTrue, Held, Under,
              front, github
<1>3. CASE Send(Reopened)
  <2>1. ServiceStep
    BY <1>3, CampaignAssumption DEF ServiceStep
  <2>2. QED
    BY <2>1, ServiceTypes, ServiceKeepsOne, ServiceKeepsJournal, ServiceKeepsOwns
<1>4. QED
  BY <1>1, <1>2, <1>3, CampaignTouches

(* A step of the campaign keeps the types of its own variables.            *)
LEMMA CampaignTypes ==
  ASSUME TypeOK, ServiceTypeOK', troubled' \in BOOLEAN, CampaignStep
  PROVE  TypeOK'
<1> USE DEF TypeOK, ServiceTypeOK, Fail, Goto, Steps, Polling
<1>1. CASE RequireService \/ RequireFresh \/ RequireCleanHost \/ TakeCursor \/ Close \/ Reopen
  BY <1>1 DEF RequireService, RequireFresh, RequireCleanHost, TakeCursor, Close, Reopen
<1>2. CASE Poll \/ ReadJournal \/ CheckResources \/ Sleep
  BY <1>2 DEF Poll, ReadJournal, CheckResources, Sleep
<1>3. CASE Verify
  BY <1>3 DEF Verify
<1>4. CASE Raises
  <2>1. FailStage[step] \in {"host_command", "precondition", "resource_inspection",
                            "signed_event", "input"}
    BY <1>4 DEF Raises, FailStage
  <2>2. QED
    BY <1>4, <2>1 DEF Raises
<1>5. CASE Expire \/ NotReady \/ CloseRaises \/ ReopenRaises
  BY <1>5 DEF Expire, NotReady, CloseRaises, ReopenRaises
<1>6. CASE PollRaises \/ Redaction \/ OthersOnHost
  BY <1>6 DEF PollRaises, Redaction, RefusalStages, OthersOnHost
<1>7. QED
  BY <1>1, <1>2, <1>3, <1>4, <1>5, <1>6 DEF CampaignStep, Advance, CampaignTrouble

(* What the campaign accepts as evidence is true when it reads it, and it  *)
(* moves on only with it.                                                  *)
LEMMA CampaignKeepsEvidence ==
  ASSUME TypeOK, OneReview, JournalIsTrue, EvidenceHolds, CampaignStep
  PROVE  EvidenceHolds'
<1> USE DEF EvidenceHolds, Fail, Goto, serviceVars, front, github
<1>1. CASE RequireService \/ RequireFresh \/ RequireCleanHost \/ TakeCursor \/ Close \/ Reopen
  BY <1>1 DEF RequireService, RequireFresh, RequireCleanHost, TakeCursor, Close, Reopen, Send
<1>2. CASE Poll \/ CheckResources \/ Sleep
  BY <1>2 DEF Poll, CheckResources, Sleep, Complete, Admitted
<1>3. CASE Verify
  BY <1>3 DEF Verify, Proves, TypeOK
<1>4. CASE ReadJournal
  BY <1>4 DEF ReadJournal, SeveralAdmitted, Complete, Admitted, TypeOK
<1>5. CASE Expire \/ NotReady \/ Raises
  BY <1>5 DEF Expire, NotReady, Raises, FailStage, Complete, Admitted
<1>6. CASE CloseRaises \/ ReopenRaises \/ PollRaises \/ Redaction \/ OthersOnHost
  BY <1>6 DEF CloseRaises, ReopenRaises, PollRaises, Redaction, RefusalStages,
     OthersOnHost, Send
<1>7. QED
  BY <1>1, <1>2, <1>3, <1>4, <1>5, <1>6 DEF CampaignStep, Advance, CampaignTrouble

-----------------------------------------------------------------------------
(* A run without trouble.                                                  *)

(* Nothing but the campaign's own review can be in the service.            *)
LEMMA OnlyOwn ==
  ASSUME ServiceTypeOK, OneReview, JournalIsTrue, QuietHost
  PROVE  \A d \in Deliveries \ {Reopened} : work[d] = "none" /\ "accepted" \notin journal[d]
BY DEF QuietHost, OneReview, JournalIsTrue, ServiceTypeOK

(* A normal step of the service keeps an untroubled run untroubled.        *)
LEMMA QuietService ==
  ASSUME Sound, QuietHost, QuietEvidence, Start \/ Normal(Reopened),
         UNCHANGED <<campaignVars, troubled>>
  PROVE  QuietHost' /\ QuietEvidence'
<1> USE CampaignAssumption
    DEF Sound, TypeOK, ServiceTypeOK, QuietHost, QuietEvidence, OneReview, ServiceOwns, Held,
        Claimed, Live, Dispositions, Unpublished, Before, Failed, Bodies,
        campaignVars, serviceVars, front, github, Answer, Goes, Emit
<1>1. CASE Start
  BY <1>1 DEF Start
<1>2. CASE Claim(Reopened)
  BY <1>2 DEF Claim
<1>3. CASE Cleared(Reopened)
  BY <1>3 DEF Cleared
<1>4. CASE Accept(Reopened)
  BY <1>4 DEF Accept
<1>5. CASE Allocate(Reopened)
  BY <1>5 DEF Allocate
<1>6. CASE Review(Reopened, "grounded")
  BY <1>6 DEF Review
<1>7. CASE ScanNone(Reopened) \/ Create(Reopened)
  BY <1>7 DEF ScanNone, Create, Comment, OwnComment
<1>8. CASE RunEnds(Reopened, "closing")
  <2>1. work[Reopened] = "created" /\ Reopened \notin onHost
    BY <1>8 DEF RunEnds
  <2>2. journal' = [journal EXCEPT ![Reopened] = @ \cup {"cleanup", "publication"}]
    <3>1. PICK told \in SUBSET {"cleanup", "publication"} :
            /\ "cleanup" \in told /\ "publication" \in told
            /\ journal' = [journal EXCEPT ![Reopened] = @ \cup told]
      BY <1>8, <2>1, Ended
    <3>2. told = {"cleanup", "publication"}
      BY <3>1, BothTold
    <3>3. QED
      BY <3>1, <3>2
  <2>3. QED
    BY <1>8, <2>1, <2>2 DEF RunEnds
<1>9. CASE TerminalRelease(Reopened)
  BY <1>9 DEF TerminalRelease
<1>10. QED
  BY <1>1, <1>2, <1>3, <1>4, <1>5, <1>6, <1>7, <1>8, <1>9 DEF Normal

(* A step of the campaign in an untroubled run fails at no stage and keeps *)
(* what that rests on.                                                     *)
LEMMA QuietCampaign ==
  ASSUME Sound, QuietHost, QuietEvidence, Advance, UNCHANGED troubled
  PROVE  QuietHost' /\ QuietEvidence'
<1> USE CampaignAssumption, OnlyOwn
    DEF Sound, TypeOK, ServiceTypeOK, QuietHost, QuietEvidence, OneReview, ServiceOwns, Held,
        Claimed, Live, Dispositions, Unpublished, Before, Failed, Fail, Goto, Single,
        serviceVars, front, github
<1>1. CASE RequireService \/ RequireFresh \/ RequireCleanHost
  BY <1>1 DEF RequireService, RequireFresh, RequireCleanHost
<1>2. CASE TakeCursor \/ Close
  BY <1>2 DEF TakeCursor, Close
<1>3. CASE Reopen
  BY <1>3 DEF Reopen, Send
<1>4. CASE Poll \/ Verify
  BY <1>4 DEF Poll, Verify, Proves, OwnComment
<1>5. CASE ReadJournal \/ Sleep
  BY <1>5 DEF ReadJournal, SeveralAdmitted, Admitted, Complete, Sleep
<1>6. CASE CheckResources
  BY <1>6 DEF CheckResources, EvidenceHolds, JournalIsTrue, Complete
<1>7. QED
  BY <1>1, <1>2, <1>3, <1>4, <1>5, <1>6 DEF Advance

-----------------------------------------------------------------------------
(* The inductive invariant holds initially.                                *)
LEMMA Initially == Init => IInv
<1> SUFFICES ASSUME Init PROVE IInv
  OBVIOUS
<1> USE DEF Init, ServiceInit
<1>1. ServiceTypeOK
  <2>1. outages \in 0..MaxOutages
    BY ServiceAssumption
  <2>2. journal \in [Deliveries -> SUBSET Events]
    OBVIOUS
  <2>3. QED
    BY <2>1, <2>2 DEF ServiceTypeOK, Claimed, Live, Bodies
<1>2. evidence \in [comment : [by : Deliveries, body : Bodies, late : BOOLEAN],
                    attempt : Deliveries]
  BY CampaignAssumption DEF NoComment, Bodies
<1>3. TypeOK
  BY <1>1, <1>2 DEF TypeOK, Steps
<1>4. ServiceOwns /\ OneReview /\ JournalIsTrue
  BY DEF ServiceOwns, OneReview, JournalIsTrue, Held, Claimed, Live, Dispositions, Published, Under
<1>5. EvidenceHolds
  BY DEF EvidenceHolds
<1>6. QuietHost /\ QuietEvidence
  BY CampaignAssumption DEF QuietHost, QuietEvidence, Before, Unpublished, Failed
<1>7. QED
  BY <1>3, <1>4, <1>5, <1>6 DEF IInv, Sound, Quiet

(* Every step keeps it.                                                    *)
LEMMA Consecution == IInv /\ [Next]_vars => IInv'
<1> SUFFICES ASSUME IInv, [Next]_vars PROVE IInv'
  OBVIOUS
<1>1. ASSUME Sound, ServiceStep, UNCHANGED campaignVars, troubled' \in BOOLEAN PROVE Sound'
  <2>1. ServiceTypeOK' /\ ServiceOwns' /\ OneReview' /\ JournalIsTrue' /\ EvidenceHolds'
    BY <1>1, ServiceTypes, ServiceKeepsOwns, ServiceKeepsOne, ServiceKeepsJournal,
       ServiceKeepsEvidence DEF Sound, TypeOK
  <2>2. TypeOK'
    BY <1>1, <2>1 DEF Sound, TypeOK, campaignVars
  <2>3. QED
    BY <2>1, <2>2 DEF Sound
<1>2. ASSUME Sound, CampaignStep, troubled' \in BOOLEAN PROVE Sound'
  BY <1>2, CampaignKeepsService, CampaignTypes, CampaignKeepsEvidence DEF Sound, TypeOK
<1>3. CASE Advance /\ UNCHANGED troubled
  BY <1>2, <1>3, QuietCampaign DEF IInv, Quiet, CampaignStep, Sound, TypeOK
<1>4. CASE CampaignTrouble /\ troubled' = TRUE
  BY <1>2, <1>4 DEF IInv, Quiet, CampaignStep
<1>5. CASE (Start \/ Normal(Reopened)) /\ UNCHANGED <<campaignVars, troubled>>
  BY <1>1, <1>5, QuietService, CampaignAssumption DEF IInv, Quiet, ServiceStep, Sound, TypeOK
<1>6. CASE /\ \/ Trouble
              \/ \E d \in Deliveries \ {Reopened} : Send(d) \/ Normal(d)
           /\ troubled' = TRUE
           /\ UNCHANGED campaignVars
  BY <1>1, <1>6 DEF IInv, Quiet, ServiceStep
<1>7. CASE UNCHANGED vars
  BY <1>7 DEF IInv, Sound, TypeOK, ServiceTypeOK, ServiceOwns, OneReview, Under, Held,
              JournalIsTrue, EvidenceHolds, Complete, Admitted, Quiet, QuietHost, QuietEvidence,
              Failed, vars, serviceVars, campaignVars, front, github
<1>8. QED
  BY <1>3, <1>4, <1>5, <1>6, <1>7 DEF Next

(* The inductive invariant: what claims, resources, comments and journal   *)
(* say of each other, and what the campaign's steps rely on.               *)
THEOREM Invariance == Spec => []IInv
<1>1. QED
  BY Initially, Consecution, PTL DEF Spec

(* Ready means admitting, and nothing of a killed service on the host.     *)
THEOREM ReadyService == Spec => []ReadyMeansAdmitting
<1>1. IInv => ReadyMeansAdmitting
  BY DEF IInv, Sound, ServiceOwns, ReadyMeansAdmitting
<1>2. QED
  BY <1>1, Invariance, PTL

(* A campaign that passed has proved one review.                           *)
THEOREM PassesAreProven == Spec => []PassedMeansProven
<1>1. IInv => PassedMeansProven
  <2> SUFFICES ASSUME IInv, verdict = "passed" PROVE PassedMeansProven
    BY DEF PassedMeansProven
  <2>1. EvidenceHolds /\ JournalIsTrue /\ OneReview /\ evidence.attempt \in Deliveries
    BY DEF IInv, Sound, TypeOK
  <2>2. work[evidence.attempt] = "succeeded"
    BY <2>1 DEF EvidenceHolds, JournalIsTrue, Complete
  <2>3. prOpen
    BY <2>1 DEF EvidenceHolds
  <2>4. PICK c \in comments : c.by = evidence.comment.by
    BY <2>1 DEF EvidenceHolds
  <2>5. c.late \/ evidence.attempt = c.by
    BY <2>1, <2>2 DEF OneReview, Under
  <2>6. QED
    BY <2>1, <2>2, <2>3, <2>4, <2>5 DEF PassedMeansProven, EvidenceHolds
<1>2. QED
  BY <1>1, Invariance, PTL

(* A campaign that meets no trouble passes.                                *)
THEOREM UntroubledPasses == Spec => []UntroubledCampaignPasses
<1>1. IInv => UntroubledCampaignPasses
  BY DEF IInv, Sound, EvidenceHolds, Quiet, QuietEvidence, UntroubledCampaignPasses
<1>2. QED
  BY <1>1, Invariance, PTL

-----------------------------------------------------------------------------
(* The service implements RevisionClaims.                                  *)

HoldsNow == [d \in Deliveries |-> Holds(d)]

(* A delivery holds the claim while its preflight or its review is there.  *)
LEMMA HoldingIsHeld ==
  ASSUME ServiceTypeOK, OneReview
  PROVE  Claiming!Holding = Held
<1>1. \A d \in Deliveries : HoldsNow[d] \in {"PREFLIGHT", "RUNNING"}
        <=> delivery[d] \in Claimed \/ work[d] \in Live
  BY DEF HoldsNow, Holds, ServiceTypeOK, OneReview, Claimed, Live, Dispositions
<1>2. QED
  BY <1>1 DEF Claiming!Holding, Held, HoldsNow

(* A step of one delivery changes what that delivery holds, nothing else.  *)
LEMMA OthersHold ==
  ASSUME NEW d \in Deliveries, NEW phase, Holds(d)' = phase,
         \A e \in Deliveries \ {d} : delivery'[e] = delivery[e] /\ work'[e] = work[e]
  PROVE  HoldsNow' = [HoldsNow EXCEPT ![d] = phase]
<1>1. \A e \in Deliveries \ {d} : Holds(e)' = Holds(e)
  BY DEF Holds
<1>2. QED
  BY <1>1 DEF HoldsNow

(* Each step of the service is a step of RevisionClaims or a stutter.      *)
LEMMA ServiceClaims ==
  ASSUME ServiceTypeOK, OneReview, ServiceOwns, ServiceStep
  PROVE  [Claiming!CNext]_(Claiming!cvars)
<1> USE DEF Claiming!CNext, Claiming!cvars, front, github
<1>1. ASSUME UNCHANGED server, HoldsNow' = HoldsNow
      PROVE  [Claiming!CNext]_(Claiming!cvars)
  BY <1>1 DEF HoldsNow
<1>2. ASSUME UNCHANGED <<delivery, work>>
      PROVE  HoldsNow' = HoldsNow
  BY <1>2 DEF Holds, HoldsNow
<1>3. /\ delivery \in [Deliveries -> {"unsent", "sent", "answered"} \cup Claimed]
      /\ work \in [Deliveries -> Live \cup {"none", "killed", "over", "succeeded"}]
      /\ \A d \in Deliveries : delivery[d] # "answered" => work[d] = "none"
  BY DEF ServiceTypeOK, OneReview
<1>4. CASE Start
  BY <1>2, <1>4 DEF Start, Claiming!Open, AdmissionState, HoldsNow
<1>5. CASE StartFails \/ Lands
  <2>1. UNCHANGED <<server, delivery, work>>
    BY <1>5 DEF StartFails, Lands
  <2>2. QED
    BY <1>1, <1>2, <2>1
<1>6. CASE Stop
  BY <1>2, <1>6 DEF Stop, Claiming!Close, AdmissionState, HoldsNow
<1>7. CASE Drained
  BY <1>2, <1>7, HoldingIsHeld DEF Drained, Claiming!Drained, AdmissionState, HoldsNow
<1>8. CASE Kill
  <2>1. ASSUME NEW d \in Deliveries
        PROVE  Holds(d)' = IF d \in Held THEN "done" ELSE Holds(d)
    <3>1. CASE delivery[d] \in Claimed
      BY <1>3, <1>8, <3>1 DEF Kill, Holds, Held, Claimed, Live, Dispositions
    <3>2. CASE work[d] \in Live
      BY <1>3, <1>8, <3>2 DEF Kill, Holds, Held, Claimed, Live, Dispositions
    <3>3. CASE delivery[d] \notin Claimed /\ work[d] \notin Live
      BY <1>3, <1>8, <3>3 DEF Kill, Holds, Held, Claimed, Live, Dispositions
    <3>4. QED
      BY <3>1, <3>2, <3>3
  <2>2. HoldsNow' = [d \in Deliveries |-> IF d \in Claiming!Holding THEN "done" ELSE HoldsNow[d]]
    BY <2>1, HoldingIsHeld DEF HoldsNow
  <2>3. AdmissionState[server] # "closed" /\ AdmissionState[server'] = "closed"
    BY <1>8 DEF Kill, AdmissionState, ServiceTypeOK
  <2>4. QED
    BY <2>2, <2>3 DEF Claiming!Kill, HoldsNow
<1>9. ASSUME NEW d \in Deliveries, Send(d) PROVE [Claiming!CNext]_(Claiming!cvars)
  <2>1. Holds(d) = "new" /\ Holds(d)' = "new"
    BY <1>3, <1>9 DEF Send, Holds
  <2>2. HoldsNow' = [HoldsNow EXCEPT ![d] = "new"]
    BY <1>3, <1>9, <2>1, OthersHold DEF Send
  <2>3. HoldsNow' = HoldsNow
    BY <2>1, <2>2 DEF HoldsNow
  <2>4. QED
    BY <1>1, <1>9, <2>3 DEF Send
<1>10. ASSUME NEW d \in Deliveries, Refused(d) PROVE [Claiming!CNext]_(Claiming!cvars)
  <2>1. Holds(d) = "new" /\ Holds(d)' = "done"
    BY <1>3, <1>10 DEF Refused, Answer, Holds, Claimed, Live, Dispositions
  <2>2. HoldsNow' = [HoldsNow EXCEPT ![d] = "done"]
    BY <1>3, <1>10, <2>1, OthersHold DEF Refused, Answer
  <2>3. QED
    BY <1>10, <2>1, <2>2 DEF Refused, Claiming!Refuse, Claiming!Becomes, HoldsNow
<1>11. ASSUME NEW d \in Deliveries, Claim(d) PROVE [Claiming!CNext]_(Claiming!cvars)
  <2>1. Holds(d) = "new" /\ Holds(d)' = "PREFLIGHT"
    BY <1>3, <1>11 DEF Claim, Holds, Claimed
  <2>2. HoldsNow' = [HoldsNow EXCEPT ![d] = "PREFLIGHT"]
    BY <1>3, <1>11, <2>1, OthersHold DEF Claim
  <2>3. Claiming!Holding = {} /\ AdmissionState[server] = "open" /\ UNCHANGED server
    BY <1>11, HoldingIsHeld DEF Claim, AdmissionState
  <2>4. QED
    BY <2>1, <2>2, <2>3 DEF Claiming!Claim, Claiming!Becomes, HoldsNow
<1>12. ASSUME NEW d \in Deliveries, AlreadyReviewed(d) \/ Declined(d) \/ PreflightFails(d)
       PROVE  [Claiming!CNext]_(Claiming!cvars)
  <2>1. /\ delivery[d] \in Claimed /\ delivery' = [delivery EXCEPT ![d] = "answered"]
        /\ UNCHANGED <<work, server>>
    BY <1>12 DEF AlreadyReviewed, Declined, PreflightFails, Answer, Claimed
  <2>2. d \in Claiming!Holding /\ Holds(d)' = "done"
    BY <1>3, <2>1, HoldingIsHeld DEF Held, Holds, Claimed, Live, Dispositions
  <2>3. HoldsNow' = [HoldsNow EXCEPT ![d] = "done"]
    BY <1>3, <2>1, <2>2, OthersHold
  <2>4. QED
    BY <2>1, <2>2, <2>3 DEF Claiming!Release, Claiming!Becomes, HoldsNow
<1>13. ASSUME NEW d \in Deliveries, Cleared(d) PROVE [Claiming!CNext]_(Claiming!cvars)
  <2>1. Holds(d) = "PREFLIGHT" /\ Holds(d)' = "PREFLIGHT"
    BY <1>3, <1>13 DEF Cleared, Holds, Claimed
  <2>2. HoldsNow' = [HoldsNow EXCEPT ![d] = "PREFLIGHT"]
    BY <1>3, <1>13, <2>1, OthersHold DEF Cleared
  <2>3. HoldsNow' = HoldsNow
    BY <2>1, <2>2 DEF HoldsNow
  <2>4. QED
    BY <1>1, <1>13, <2>3 DEF Cleared
<1>14. ASSUME NEW d \in Deliveries, Accept(d) PROVE [Claiming!CNext]_(Claiming!cvars)
  <2>1. Holds(d) = "PREFLIGHT" /\ Holds(d)' = "RUNNING"
    BY <1>3, <1>14 DEF Accept, Answer, Holds, Claimed, Live
  <2>2. HoldsNow' = [HoldsNow EXCEPT ![d] = "RUNNING"]
    BY <1>3, <1>14, <2>1, OthersHold DEF Accept, Answer
  <2>3. QED
    BY <1>14, <2>1, <2>2
       DEF Accept, Claiming!Promote, Claiming!Becomes, AdmissionState, HoldsNow
<1>15. ASSUME NEW d \in Deliveries, NEW w \in Live, work[d] \in Live, Goes(d, w),
              UNCHANGED <<delivery, server>>
       PROVE  [Claiming!CNext]_(Claiming!cvars)
  <2>1. delivery[d] = "answered"
    BY <1>3, <1>15 DEF Live, Dispositions
  <2>2. Holds(d) = "RUNNING" /\ Holds(d)' = "RUNNING"
    BY <1>3, <1>15, <2>1 DEF Holds, Claimed, Goes
  <2>3. HoldsNow' = [HoldsNow EXCEPT ![d] = "RUNNING"]
    BY <1>3, <1>15, <2>2, OthersHold DEF Goes
  <2>4. HoldsNow' = HoldsNow
    BY <2>2, <2>3 DEF HoldsNow
  <2>5. QED
    BY <1>1, <1>15, <2>4
<1>16. ASSUME NEW d \in Deliveries,
              \/ Allocate(d) \/ ReviewFails(d) \/ (\E b \in Bodies : Review(d, b))
              \/ ScanNone(d) \/ Create(d) \/ Update(d) \/ CreateLost(d) \/ Reconcile(d)
              \/ PublicationFails(d) \/ RunEnds(d, "closing") \/ RunEnds(d, "closing_failed")
       PROVE  [Claiming!CNext]_(Claiming!cvars)
  <2>1. \E w \in Live : work[d] \in Live /\ Goes(d, w) /\ UNCHANGED <<delivery, server>>
    BY <1>16 DEF Allocate, ReviewFails, Review, ScanNone, Create, Update, CreateLost, Reconcile,
                 PublicationFails, RunEnds, Live, Dispositions
  <2>2. QED
    BY <1>15, <1>16, <2>1
<1>17. ASSUME NEW d \in Deliveries, TerminalRelease(d) PROVE [Claiming!CNext]_(Claiming!cvars)
  <2>1. work[d] \in Live /\ delivery[d] = "answered"
    BY <1>3, <1>17 DEF TerminalRelease, Live
  <2>2. d \in Claiming!Holding /\ Holds(d)' = "done"
    BY <1>3, <1>17, <2>1, HoldingIsHeld
       DEF TerminalRelease, Goes, Held, Holds, Claimed, Live, Dispositions
  <2>3. HoldsNow' = [HoldsNow EXCEPT ![d] = "done"]
    BY <1>3, <1>17, <2>2, OthersHold DEF TerminalRelease, Goes
  <2>4. QED
    BY <1>17, <2>2, <2>3 DEF TerminalRelease, Claiming!Release, Claiming!Becomes, HoldsNow
<1>18. QED
  BY <1>4, <1>5, <1>6, <1>7, <1>8, <1>9, <1>10, <1>11, <1>12, <1>13, <1>14, <1>16, <1>17
     DEF ServiceStep, Trouble, Normal, Bodies

(* Whatever the campaign and other deliveries do to it, the service claims *)
(* and releases the revision as the lifecycle does.                        *)
THEOREM ServiceImplementsClaims == Spec => ImplementsClaims
<1>1. Init => Claiming!CInit
  BY DEF Init, ServiceInit, Claiming!CInit, AdmissionState, Holds
<1>2. ASSUME IInv, [Next]_vars
      PROVE  [Claiming!CNext]_(Claiming!cvars)
  <2>1. ServiceTypeOK /\ OneReview /\ ServiceOwns
    BY <1>2 DEF IInv, Sound, TypeOK
  <2>2. CASE ServiceStep
    BY <2>1, <2>2, ServiceClaims
  <2>3. CASE CampaignStep
    <3>1. CASE UNCHANGED serviceVars \/ TakeCursor
      BY <3>1 DEF TakeCursor, serviceVars, front, Holds, Claiming!cvars
    <3>2. CASE Send(Reopened)
      BY <2>1, <3>2, ServiceClaims, CampaignAssumption DEF ServiceStep
    <3>3. QED
      BY <2>3, <3>1, <3>2, CampaignTouches
  <2>4. CASE UNCHANGED vars
    BY <2>4 DEF vars, serviceVars, front, Holds, Claiming!cvars
  <2>5. QED
    BY <1>2, <2>2, <2>3, <2>4, CampaignAssumption DEF Next, ServiceStep, CampaignStep
<1>3. QED
  BY <1>1, <1>2, Invariance, PTL DEF Spec, ImplementsClaims, Claiming!CSpec

-----------------------------------------------------------------------------
(* The service implements ReviewTransactions.                              *)

Phases == [d \in Deliveries |-> Phase(d)]
Posted == {c.by : c \in comments} \cup inFlight
Recorded == [d \in Deliveries |-> journal[d] \cap {"cleanup", "publication"}]

(* The phase of a review that goes on.                                     *)
LEMMA GoesMaps ==
  ASSUME ServiceTypeOK, NEW d \in Deliveries, NEW w, Goes(d, w)
  PROVE  work'[d] = w /\ Phases' = [Phases EXCEPT ![d] = Phase(d)']
<1>1. work'[d] = w /\ \A e \in Deliveries \ {d} : work'[e] = work[e]
  BY DEF Goes, ServiceTypeOK
<1>2. \A e \in Deliveries \ {d} : Phase(e)' = Phase(e)
  BY <1>1 DEF Phase, Dispositions
<1>3. QED
  BY <1>1, <1>2 DEF Phases

(* A step of a review that stays in its phase.                             *)
LEMMA GoesWithin ==
  ASSUME ServiceTypeOK, NEW d \in Deliveries, NEW w, Goes(d, w), Phase(d)' = Phase(d)
  PROVE  Phases' = Phases
<1>1. Phases' = [Phases EXCEPT ![d] = Phase(d)]
  BY GoesMaps
<1>2. QED
  BY <1>1 DEF Phases

(* What a reader of the resources' and the publication's records finds.    *)
LEMMA EmitMaps ==
  ASSUME ServiceTypeOK, NEW d \in Deliveries, NEW told,
         journal' = [journal EXCEPT ![d] = @ \cup told]
  PROVE  Recorded' = [Recorded EXCEPT ![d] = @ \cup (told \cap {"cleanup", "publication"})]
<1>1. journal'[d] = journal[d] \cup told
  BY DEF ServiceTypeOK
<1>2. \A e \in Deliveries \ {d} : journal'[e] = journal[e]
  BY DEF ServiceTypeOK
<1>3. journal'[d] \cap {"cleanup", "publication"}
        = Recorded[d] \cup (told \cap {"cleanup", "publication"})
  BY <1>1, Zenon DEF Recorded
<1>4. QED
  BY <1>2, <1>3 DEF Recorded

(* The other records are none of them.                                     *)
LEMMA EmitOther ==
  ASSUME ServiceTypeOK, NEW d \in Deliveries, NEW event \in {"accepted", "succeeded", "failed"},
         Emit(d, {event})
  PROVE  Recorded' = Recorded
<1>1. Recorded' = [Recorded EXCEPT ![d] = @ \cup ({event} \cap {"cleanup", "publication"})]
  BY EmitMaps DEF Emit
<1>2. {event} \cap {"cleanup", "publication"} = {}
  OBVIOUS
<1>3. Recorded[d] \cup {} = Recorded[d]
  OBVIOUS
<1>4. QED
  BY <1>1, <1>2, <1>3 DEF Recorded

(* A create that lands was posted before; one that is answered is posted.  *)
LEMMA PostedByLanding ==
  ASSUME ServiceTypeOK, Lands
  PROVE  Posted' = Posted
<1>1. PICK d \in inFlight : \E c \in [by : {d}, body : Bodies, late : BOOLEAN] :
        comments' = comments \cup {c} /\ inFlight' = inFlight \ {d}
  BY Landed
<1>2. QED
  BY <1>1 DEF Posted

(* Its create is the review's own.                                         *)
LEMMA PostedByCreate ==
  ASSUME ServiceTypeOK, NEW d \in Deliveries, Create(d)
  PROVE  Posted' = Posted \cup {d}
<1>1. PICK c \in [by : Deliveries, body : Bodies, late : BOOLEAN] :
        c.by = d /\ ~c.late /\ comments' = comments \cup {c}
  BY Created
<1>2. inFlight' = inFlight
  BY DEF Create
<1>3. QED
  BY <1>1, <1>2 DEF Posted

(* An update posts nothing: the comment keeps its author.                  *)
LEMMA PostedByUpdate ==
  ASSUME ServiceTypeOK, NEW d \in Deliveries, Update(d)
  PROVE  Posted' = Posted
<1>1. inFlight' = inFlight
  BY DEF Update
<1>2. QED
  BY <1>1, UpdateKeepsAuthors DEF Posted

(* A review that runs belongs to a process that does.                      *)
LEMMA LiveIsUp ==
  ASSUME ServiceOwns, NEW d \in Deliveries, work[d] \in Live
  PROVE  server # "down"
  BY DEF ServiceOwns, Held

(* Begin, end of the work on the host, and failure.                        *)
LEMMA HostSteps ==
  ASSUME ServiceTypeOK, ServiceOwns, NEW d \in Deliveries
  PROVE  /\ Allocate(d) => Transacting!Begin(d)
         /\ \A body \in Bodies : Review(d, body) => Transacting!Clear(d)
         /\ ReviewFails(d) => Transacting!Fail(d)
<1> USE DEF Transacting!Moves, Transacting!With, Transacting!Without, Phases, Recorded,
        front, github
<1>1. ASSUME Allocate(d) PROVE Transacting!Begin(d)
  <2>1. work[d] = "accepted" /\ server # "down"
    BY <1>1, LiveIsUp DEF Allocate, Live
  <2>2. Phase(d) = "waiting"
    BY <2>1 DEF Phase, Dispositions
  <2>3. work'[d] = "reviewing" /\ Phases' = [Phases EXCEPT ![d] = Phase(d)']
    BY <1>1, GoesMaps DEF Allocate
  <2>4. Phase(d)' = "working"
    BY <2>3 DEF Phase, Dispositions
  <2>5. QED
    BY <1>1, <2>1, <2>2, <2>3, <2>4 DEF Allocate, Transacting!Begin
<1>2. ASSUME NEW body \in Bodies, Review(d, body) PROVE Transacting!Clear(d)
  <2>1. work[d] = "reviewing" /\ server # "down"
    BY <1>2, LiveIsUp DEF Review, Live
  <2>2. Phase(d) = "working"
    BY <2>1 DEF Phase, Dispositions
  <2>3. work'[d] = "cleaned" /\ Phases' = [Phases EXCEPT ![d] = Phase(d)']
    BY <1>2, GoesMaps DEF Review
  <2>4. Phase(d)' = "publishing"
    BY <2>3 DEF Phase, Dispositions
  <2>5. QED
    BY <1>2, <2>1, <2>2, <2>3, <2>4 DEF Review, Transacting!Clear
<1>3. ASSUME ReviewFails(d) PROVE Transacting!Fail(d)
  <2>1. work[d] \in {"accepted", "reviewing"} /\ server # "down"
    BY <1>3, LiveIsUp DEF ReviewFails, Live
  <2>2. Phase(d) \in {"waiting", "working"}
    BY <2>1 DEF Phase, Dispositions
  <2>3. work'[d] = "failed" /\ Phases' = [Phases EXCEPT ![d] = Phase(d)']
    BY <1>3, GoesMaps DEF ReviewFails
  <2>4. Phase(d)' = "failed"
    BY <2>3 DEF Phase, Dispositions
  <2>5. QED
    BY <1>3, <2>1, <2>2, <2>3, <2>4 DEF ReviewFails, Transacting!Fail
<1>4. QED
  BY <1>1, <1>2, <1>3

(* The publication.                                                        *)
LEMMA PublicationSteps ==
  ASSUME ServiceTypeOK, ServiceOwns, NEW d \in Deliveries,
         \/ ScanNone(d) \/ Create(d) \/ Update(d) \/ CreateLost(d) \/ Reconcile(d)
         \/ PublicationFails(d)
  PROVE  [Transacting!TNext]_(Transacting!tvars)
<1> USE DEF Transacting!TNext, Transacting!tvars, Transacting!Moves, Phases, Posted, Recorded,
        front, github
<1>1. /\ work[d] \in {"cleaned", "creating", "recheck"} /\ server # "down" /\ server' = server
      /\ onHost' = onHost /\ Recorded' = Recorded
  BY LiveIsUp DEF ScanNone, Create, Update, CreateLost, Reconcile, PublicationFails, Live
<1>2. Phase(d) = "publishing"
  BY <1>1 DEF Phase, Dispositions
<1>3. ASSUME NEW w \in {"creating", "recheck"}, Goes(d, w), Posted' = Posted
      PROVE  UNCHANGED Transacting!tvars
  <2>1. Phase(d)' = "publishing"
    BY <1>3, GoesMaps DEF Phase, Dispositions
  <2>2. Phases' = Phases
    BY <1>2, <1>3, <2>1, GoesWithin
  <2>3. QED
    BY <1>1, <1>3, <2>2
<1>4. ASSUME NEW w \in Dispositions, Goes(d, w), Posted' \in {Posted, Posted \cup {d}}
      PROVE  Transacting!Publish(d)
  <2>1. Phase(d)' = "published" /\ Phases' = [Phases EXCEPT ![d] = Phase(d)']
    BY <1>4, GoesMaps DEF Phase, Dispositions
  <2>2. QED
    BY <1>1, <1>2, <1>4, <2>1 DEF Transacting!Publish
<1>5. CASE ScanNone(d)
  BY <1>3, <1>5 DEF ScanNone
<1>6. CASE Create(d)
  BY <1>4, <1>6, PostedByCreate DEF Create, Dispositions
<1>7. CASE Update(d)
  <2>1. \E w \in Dispositions \cup {"recheck"} : Goes(d, w)
    BY <1>7 DEF Update, Dispositions
  <2>2. QED
    BY <1>3, <1>4, <1>7, <2>1, PostedByUpdate
<1>8. CASE CreateLost(d)
  <2>1. Goes(d, "recheck") /\ Posted' = Posted \cup {d}
    BY <1>8 DEF CreateLost
  <2>2. Phase(d)' = "publishing" /\ Phases' = [Phases EXCEPT ![d] = Phase(d)']
    <3>1. work'[d] = "recheck" /\ Phases' = [Phases EXCEPT ![d] = Phase(d)']
      BY <2>1, GoesMaps
    <3>2. QED
      BY <3>1 DEF Phase, Dispositions
  <2>3. Transacting!Post(d)
    BY <1>1, <1>2, <2>1, <2>2 DEF Transacting!Post
  <2>4. QED
    BY <2>3
<1>9. CASE Reconcile(d)
  BY <1>4, <1>9 DEF Reconcile, Dispositions
<1>10. CASE PublicationFails(d)
  <2>1. Goes(d, "failed") /\ Posted' = Posted
    BY <1>10 DEF PublicationFails
  <2>2. Phase(d)' = "failed" /\ Phases' = [Phases EXCEPT ![d] = Phase(d)']
    <3>1. work'[d] = "failed" /\ Phases' = [Phases EXCEPT ![d] = Phase(d)']
      BY <2>1, GoesMaps
    <3>2. QED
      BY <3>1 DEF Phase, Dispositions
  <2>3. Transacting!Fail(d)
    BY <1>1, <1>2, <2>1, <2>2 DEF Transacting!Fail
  <2>4. QED
    BY <2>3
<1>11. QED
  BY <1>5, <1>6, <1>7, <1>8, <1>9, <1>10

(* The end of a run and its records.                                       *)
LEMMA RunEndsMaps ==
  ASSUME ServiceTypeOK, ServiceOwns, NEW d \in Deliveries,
         NEW ended \in {"closing", "closing_failed"}, RunEnds(d, ended)
  PROVE  Transacting!Return(d) \/ Transacting!Raise(d)
<1> USE DEF Transacting!Ends, Transacting!Moves, Phases, Posted, Recorded, front, github
<1>1. /\ work[d] \in Dispositions \/ (ended = "closing_failed" /\ work[d] = "failed")
      /\ server # "down" /\ server' = server
      /\ onHost' = onHost /\ Posted' = Posted
  BY LiveIsUp DEF RunEnds, Live
<1>2. Phase(d) = IF work[d] \in Dispositions THEN "published" ELSE "failed"
  BY <1>1 DEF Phase, Dispositions
<1>3. work'[d] = ended /\ Phases' = [Phases EXCEPT ![d] = Phase(d)']
  BY GoesMaps DEF RunEnds
<1>4. Phase(d)' = IF ended = "closing" THEN "returned" ELSE "raised"
  BY <1>3 DEF Phase, Dispositions
<1>5. PICK told \in SUBSET {"cleanup", "publication"} :
        /\ "cleanup" \in told => d \notin onHost
        /\ work[d] \in Dispositions => "cleanup" \in told
        /\ "publication" \in told <=> work[d] \in {"created", "reconciled"}
        /\ journal' = [journal EXCEPT ![d] = @ \cup told]
  BY Ended
<1>6. Recorded' = [Recorded EXCEPT ![d] = @ \cup told]
  <2>1. told \cap {"cleanup", "publication"} = told
    OBVIOUS
  <2>2. QED
    BY <1>5, <2>1, EmitMaps
<1>7. "publication" \in told => Phase(d) = "published"
  BY <1>2, <1>5 DEF Dispositions
<1>8. CASE ended = "closing"
  BY <1>1, <1>2, <1>3, <1>4, <1>5, <1>6, <1>7, <1>8 DEF Transacting!Return
<1>9. CASE ended = "closing_failed"
  BY <1>1, <1>2, <1>3, <1>4, <1>5, <1>6, <1>7, <1>9 DEF Transacting!Raise
<1>10. QED
  BY <1>8, <1>9

(* What neither the host, nor GitHub, nor the two records tell.            *)
LEMMA UnseenSteps ==
  ASSUME ServiceTypeOK, OneReview, ServiceStep,
         \/ Stop \/ Lands
         \/ \E d \in Deliveries :
              \/ Send(d) \/ Refused(d) \/ Claim(d) \/ AlreadyReviewed(d) \/ Cleared(d)
              \/ Declined(d) \/ PreflightFails(d) \/ Accept(d) \/ TerminalRelease(d)
  PROVE  UNCHANGED Transacting!tvars
<1> USE DEF Transacting!tvars, Phases, Posted, Recorded, front, github
<1>1. ASSUME UNCHANGED <<work, onHost, comments, inFlight, journal>>,
             server # "down" <=> server' # "down"
      PROVE  UNCHANGED Transacting!tvars
  <2>1. Phases' = Phases
    BY <1>1 DEF Phase
  <2>2. QED
    BY <1>1, <2>1
<1>2. CASE Stop
  BY <1>1, <1>2 DEF Stop
<1>3. CASE Lands
  <2>1. Posted' = Posted
    BY <1>3, PostedByLanding
  <2>2. Phases' = Phases
    BY <1>3 DEF Lands, Phase
  <2>3. QED
    BY <1>3, <2>1, <2>2 DEF Lands
<1>4. ASSUME NEW d \in Deliveries,
             Send(d) \/ Refused(d) \/ Claim(d) \/ AlreadyReviewed(d) \/ Cleared(d) \/ Declined(d)
      PROVE  UNCHANGED Transacting!tvars
  BY <1>1, <1>4 DEF Send, Refused, Claim, AlreadyReviewed, Cleared, Declined
<1>5. ASSUME NEW d \in Deliveries, PreflightFails(d)
      PROVE  UNCHANGED Transacting!tvars
  <2>1. Recorded' = Recorded
    BY <1>5, EmitOther DEF PreflightFails
  <2>2. Phases' = Phases
    BY <1>5 DEF PreflightFails, Phase
  <2>3. QED
    BY <1>5, <2>1, <2>2 DEF PreflightFails
<1>6. ASSUME NEW d \in Deliveries, NEW w, NEW event \in {"accepted", "succeeded", "failed"},
             Goes(d, w), Emit(d, {event}), UNCHANGED <<front, onHost, github>>,
             Phase(d)' = Phase(d)
      PROVE  UNCHANGED Transacting!tvars
  <2>1. Recorded' = Recorded
    BY <1>6, EmitOther
  <2>2. Phases' = Phases
    BY <1>6, GoesWithin
  <2>3. QED
    BY <1>6, <2>1, <2>2
<1>7. ASSUME NEW d \in Deliveries, Accept(d)
      PROVE  UNCHANGED Transacting!tvars
  <2>1. work[d] = "none" /\ Goes(d, "accepted")
    BY <1>7 DEF Accept, OneReview, Goes
  <2>2. work'[d] = "accepted"
    BY <2>1, GoesMaps
  <2>3. Phase(d)' = Phase(d)
    BY <2>1, <2>2 DEF Phase, Dispositions
  <2>4. QED
    BY <1>6, <1>7, <2>1, <2>3 DEF Accept
<1>8. ASSUME NEW d \in Deliveries, TerminalRelease(d)
      PROVE  UNCHANGED Transacting!tvars
  <2>1. ASSUME NEW w, NEW event \in {"succeeded", "failed"}, Goes(d, w), Emit(d, {event}),
               \/ work[d] = "closing" /\ w = "succeeded"
               \/ work[d] = "closing_failed" /\ w = "over"
        PROVE  UNCHANGED Transacting!tvars
    <3>1. work'[d] = w
      BY <2>1, GoesMaps
    <3>2. Phase(d)' = Phase(d)
      BY <2>1, <3>1 DEF Phase, Dispositions
    <3>3. QED
      BY <1>6, <1>8, <2>1, <3>2 DEF TerminalRelease
  <2>2. CASE work[d] = "closing"
    BY <1>8, <2>1, <2>2 DEF TerminalRelease
  <2>3. CASE work[d] = "closing_failed"
    BY <1>8, <2>1, <2>3 DEF TerminalRelease
  <2>4. QED
    BY <1>8, <2>2, <2>3 DEF TerminalRelease
<1>9. QED
  BY <1>2, <1>3, <1>4, <1>5, <1>7, <1>8

(* Start, stop and kill of the process.                                    *)
LEMMA ProcessSteps ==
  ASSUME ServiceTypeOK, OneReview, ServiceOwns
  PROVE  /\ Start => Transacting!Start
         /\ StartFails => Transacting!StartFails
         /\ Drained => Transacting!Stop
         /\ Kill => Transacting!Kill
<1> USE DEF Phases, Posted, Recorded, front, github
<1>1. \A d \in Deliveries : Phases[d] \in Transacting!Running => work[d] \in Live
  BY DEF ServiceTypeOK, Phase, Live, Dispositions, Transacting!Running
<1>2. UNCHANGED work => Phases' = Phases
  BY DEF Phase
<1>3. ASSUME Start PROVE Transacting!Start
  BY <1>2, <1>3 DEF Start, Transacting!Start
<1>4. ASSUME StartFails PROVE Transacting!StartFails
  BY <1>2, <1>4 DEF StartFails, Transacting!StartFails
<1>5. ASSUME Drained PROVE Transacting!Stop
  <2>1. \A d \in Deliveries : work[d] \notin Live
    BY <1>5 DEF Drained, Held
  <2>2. QED
    BY <1>1, <1>2, <1>5, <2>1 DEF Drained, Transacting!Stop
<1>6. ASSUME Kill PROVE Transacting!Kill
  <2> DEFINE lost == {d \in Deliveries : work[d] \in Live}
  <2>1. \A d \in Deliveries : Phase(d)' = IF d \in lost THEN "killed" ELSE Phase(d)
    <3>1. ASSUME NEW d \in Deliveries, work[d] \in Live PROVE Phase(d)' = "killed"
      <4>1. work'[d] = "killed"
        BY <1>6, <3>1 DEF Kill
      <4>2. QED
        BY <4>1 DEF Phase, Dispositions
    <3>2. ASSUME NEW d \in Deliveries, work[d] \notin Live PROVE Phase(d)' = Phase(d)
      <4>1. work'[d] = work[d]
        BY <1>6, <3>2 DEF Kill
      <4>2. QED
        BY <4>1 DEF Phase
    <3>3. QED
      BY <3>1, <3>2
  <2>2. Phases' = [d \in Deliveries |-> IF d \in lost THEN "killed" ELSE Phases[d]]
    BY <2>1
  <2>3. \E sent \in SUBSET {d \in Deliveries : Phases[d] = "publishing"} :
          Posted' = Posted \cup sent
    <3> DEFINE creating == {d \in Deliveries : work[d] = "creating"}
    <3>1. \A d \in creating : Phases[d] = "publishing"
      BY DEF Phase, Dispositions
    <3>2. comments' = comments /\ inFlight' \in {inFlight, inFlight \cup creating}
      BY <1>6 DEF Kill
    <3>3. Posted' = Posted \cup {} \/ Posted' = Posted \cup creating
      BY <3>2
    <3>4. creating \in SUBSET {d \in Deliveries : Phases[d] = "publishing"}
      BY <3>1
    <3>5. QED
      BY <3>3, <3>4
  <2>4. /\ lost \in SUBSET Deliveries
        /\ {d \in Deliveries : Phases[d] \in Transacting!Running} \subseteq lost
    BY <1>1
  <2>5. server # "down" /\ server' = "down" /\ onHost' = onHost /\ Recorded' = Recorded
    BY <1>6 DEF Kill
  <2> HIDE DEF lost
  <2>6. QED
    BY <2>2, <2>3, <2>4, <2>5 DEF Transacting!Kill
<1>7. QED
  BY <1>3, <1>4, <1>5, <1>6

(* Each step of the service is a step of ReviewTransactions or a stutter.  *)
LEMMA ServiceTransacts ==
  ASSUME ServiceTypeOK, OneReview, ServiceOwns, ServiceStep
  PROVE  [Transacting!TNext]_(Transacting!tvars)
<1>1. CASE Start \/ StartFails \/ Drained \/ Kill
  BY <1>1, ProcessSteps DEF Transacting!TNext
<1>2. ASSUME NEW d \in Deliveries,
             Allocate(d) \/ ReviewFails(d) \/ (\E body \in Bodies : Review(d, body))
      PROVE  [Transacting!TNext]_(Transacting!tvars)
  BY <1>2, HostSteps DEF Transacting!TNext
<1>3. ASSUME NEW d \in Deliveries,
             \/ ScanNone(d) \/ Create(d) \/ Update(d) \/ CreateLost(d) \/ Reconcile(d)
             \/ PublicationFails(d)
      PROVE  [Transacting!TNext]_(Transacting!tvars)
  BY <1>3, PublicationSteps
<1>4. ASSUME NEW d \in Deliveries, RunEnds(d, "closing") \/ RunEnds(d, "closing_failed")
      PROVE  [Transacting!TNext]_(Transacting!tvars)
  BY <1>4, RunEndsMaps DEF Transacting!TNext
<1>5. CASE \/ Stop \/ Lands
           \/ \E d \in Deliveries :
                \/ Send(d) \/ Refused(d) \/ Claim(d) \/ AlreadyReviewed(d) \/ Cleared(d)
                \/ Declined(d) \/ PreflightFails(d) \/ Accept(d) \/ TerminalRelease(d)
  BY <1>5, UnseenSteps
<1>6. QED
  BY <1>1, <1>2, <1>3, <1>4, <1>5 DEF ServiceStep, Trouble, Normal, Bodies

(* The reviews that the campaign meets are transactions, as run is.        *)
THEOREM ServiceImplementsTransactions == Spec => ImplementsTransactions
<1>1. Init => Transacting!TInit
  BY DEF Init, ServiceInit, Transacting!TInit, Phase, Dispositions
<1>2. ASSUME IInv, [Next]_vars
      PROVE  [Transacting!TNext]_(Transacting!tvars)
  <2>1. ServiceTypeOK /\ OneReview /\ ServiceOwns
    BY <1>2 DEF IInv, Sound, TypeOK
  <2>2. CASE ServiceStep
    BY <2>1, <2>2, ServiceTransacts
  <2>3. CASE CampaignStep
    <3>1. CASE UNCHANGED serviceVars
      BY <3>1 DEF serviceVars, front, github, Phase, Transacting!tvars
    <3>2. CASE TakeCursor
      <4>1. Recorded' = [d \in Deliveries |-> {}] /\ Phases' = Phases
        BY <3>2 DEF TakeCursor, Recorded, Phases, Phase
      <4>2. QED
        BY <3>2, <4>1 DEF TakeCursor, Recorded, Phases, front, github, Transacting!TakeCursor,
           Transacting!TNext
    <3>3. CASE Send(Reopened)
      BY <2>1, <3>3, ServiceTransacts, CampaignAssumption DEF ServiceStep
    <3>4. QED
      BY <2>3, <3>1, <3>2, <3>3, CampaignTouches
  <2>4. CASE UNCHANGED vars
    BY <2>4 DEF vars, serviceVars, front, github, Phase, Transacting!tvars
  <2>5. QED
    BY <1>2, <2>2, <2>3, <2>4, CampaignAssumption DEF Next, ServiceStep, CampaignStep
<1>3. QED
  BY <1>1, <1>2, Invariance, PTL DEF Spec, ImplementsTransactions, Transacting!TSpec

(* The contract's own theorems, about the service's reviews.               *)
Contract == INSTANCE ReviewTransactionsProofs WITH
  Attempts <- Deliveries, up <- server # "down",
  phase <- [d \in Deliveries |-> Phase(d)], resources <- onHost,
  posted <- {c.by : c \in comments} \cup inFlight,
  records <- [d \in Deliveries |-> journal[d] \cap {"cleanup", "publication"}]

(* Hence what every transaction keeps is kept by the service that the      *)
(* campaign meets: no review of it has a comment, landed or under way,     *)
(* beside a workspace or a sandbox, and its records of a cleanup are true. *)
THEOREM ServiceKeepsPromises ==
  Spec => [](Transacting!PostedMeansClear /\ Transacting!RecordsAreTrue)
<1>1. Transacting!TInit <=> Contract!TInit
  BY DEF Contract!TInit, Transacting!TInit
<1>2. Transacting!TNext <=> Contract!TNext
  BY DEF Contract!Moves, Transacting!Moves, Contract!With, Transacting!With, Contract!Without,
     Transacting!Without, Contract!Begin, Transacting!Begin, Contract!Work, Transacting!Work,
     Contract!Clear, Transacting!Clear, Contract!Post, Transacting!Post, Contract!Publish,
     Transacting!Publish, Contract!Fail, Transacting!Fail, Contract!Ends, Transacting!Ends,
     Contract!Return, Transacting!Return, Contract!Raise, Transacting!Raise, Contract!Kill,
     Transacting!Kill, Contract!Stop, Transacting!Stop, Contract!Start, Transacting!Start,
     Contract!StartFails, Transacting!StartFails, Contract!TakeCursor, Transacting!TakeCursor,
     Contract!TNext, Transacting!TNext, Contract!Running, Transacting!Running
<1>3. Transacting!tvars = Contract!tvars /\ Transacting!tvars' = Contract!tvars'
  BY DEF Contract!tvars, Transacting!tvars
<1>4. /\ Transacting!PostedMeansClear <=> Contract!PostedMeansClear
      /\ Transacting!RecordsAreTrue <=> Contract!RecordsAreTrue
  BY DEF Contract!PostedMeansClear, Transacting!PostedMeansClear, Contract!RecordsAreTrue,
     Transacting!RecordsAreTrue, Contract!Ended, Transacting!Ended
<1>5. [Transacting!TNext]_(Transacting!tvars) => [Contract!TNext]_(Contract!tvars)
  BY <1>2, <1>3
<1>6. Transacting!TSpec => Contract!TSpec
  BY <1>1, <1>5, PTL DEF Transacting!TSpec, Contract!TSpec
<1>7. QED
  BY <1>4, <1>6, ServiceImplementsTransactions, Contract!NothingIsPostedUncleaned,
     Contract!TheJournalIsTrue, PTL DEF ImplementsTransactions
=============================================================================
