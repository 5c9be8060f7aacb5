--------------------------- MODULE ServicesProofs ---------------------------
(***************************************************************************)
(* Theorems about the components of MCServices side by side: what is shown *)
(* of each one holds of the specification the run `services` checks, for   *)
(* all constants at once.                                                  *)
(***************************************************************************)
EXTENDS MCServices, AccessProofs, HistoryProofs, RunnerProofs, SecretsProofs

(* A step of one component is a step of every other that changes nothing.  *)
LEMMA StepsApart ==
    ASSUME [ServicesNext]_servicesVars
    PROVE  /\ [Next]_vars /\ [TailNext]_tailVars /\ [RetentionNext]_retentionVars
           /\ [MaskerNext]_maskerVars /\ [LimiterNext]_limiterVars
           /\ [EnvVarsNext]_envVars /\ [CronNext]_cronVars
           /\ [WebhookNext]_webhookVars /\ [CatalogNext]_catalogVars
BY DEF ServicesNext, Others, servicesVars

(* Each behaviour of the components side by side is one of each of them.   *)
LEMMA ServicesAreTheirParts ==
    ServicesSpec => /\ Spec /\ TailSpec /\ RetentionSpec /\ MaskerSpec /\ LimiterSpec
                    /\ EnvVarsSpec /\ CronSpec /\ WebhookSpec /\ CatalogSpec
<1>1. ServicesInit => /\ Init /\ TailInit /\ RetentionInit /\ MaskerInit /\ LimiterInit
                      /\ EnvVarsInit /\ CronInit /\ WebhookInit /\ CatalogInit
  BY DEF ServicesInit
<1> QED BY <1>1, StepsApart, PTL DEF ServicesSpec, Spec, TailSpec, RetentionSpec, MaskerSpec,
        LimiterSpec, EnvVarsSpec, CronSpec, WebhookSpec, CatalogSpec

(* No component ever leaves its types, for all constants.                  *)
THEOREM PartsTypeCorrect == ServicesSpec => []PartsTypeOK
<1>1. Spec => []TypeOK
  BY TypeCorrect
<1>2. TailSpec => []TailInv
  BY TailInvariant, PartsAssumption
<1>3. RetentionSpec => []RetentionInv
  BY RetentionInvariant, PartsAssumption
<1>4. MaskerSpec => []MaskerInv
  BY MaskerInvariant, PartsAssumption
<1>5. LimiterSpec => []LimiterInv
  BY LimiterInvariant, PartsAssumption
<1>6. EnvVarsSpec => []EnvInv
  BY EnvInvariant, PartsAssumption
<1>7. CronSpec => []CronInv
  BY CronInvariant
<1>8. WebhookSpec => []ReportInv
  BY ReportInvariant, PartsAssumption
<1>9. CatalogSpec => []CatalogInv
  BY CatalogInvariant, PartsAssumption
<1>10. /\ TypeOK /\ TailInv /\ RetentionInv /\ MaskerInv /\ LimiterInv /\ EnvInv
       /\ CronInv /\ ReportInv /\ CatalogInv
       => PartsTypeOK
  BY DEF PartsTypeOK, TailInv, RetentionInv, MaskerInv, LimiterInv, EnvInv, CronInv,
     ReportInv, CatalogInv
<1> QED BY <1>1, <1>2, <1>3, <1>4, <1>5, <1>6, <1>7, <1>8, <1>9, <1>10,
        ServicesAreTheirParts, PTL

(* What the run `services` checks of safety, for all constants: sessions,  *)
(* keys, logs, secrets, quotas, days, reports, projects and runners.       *)
THEOREM ServicesSafe ==
    ServicesSpec =>
      /\ []NoOrphans /\ []StaleSessionsRaced /\ []BootstrapConfined /\ RevivedByResolve
      /\ []TextFaithful /\ []NoOrphanLog /\ RetentionSparesLive /\ []MaskingSound
      /\ []QuotaKept /\ []SecretsResolve /\ []DaysAgree /\ []ReportTruthful
      /\ CatalogFaithful
<1>1. TailSpec => []TextFaithful
  BY TextFaithfulHolds, PartsAssumption
<1>2. RetentionSpec => []NoOrphanLog /\ RetentionSparesLive
  BY NoOrphanLogHolds, RetentionSparesLiveHolds, PartsAssumption
<1>3. MaskerSpec => []MaskingSound
  BY MaskingSoundHolds, PartsAssumption
<1>4. LimiterSpec => []QuotaKept
  BY QuotaKeptHolds, PartsAssumption
<1>5. EnvVarsSpec => []SecretsResolve
  BY SecretsResolveHolds, PartsAssumption
<1>6. WebhookSpec => []ReportTruthful
  BY ReportTruthfulHolds, PartsAssumption
<1>7. CatalogSpec => CatalogFaithful
  BY CatalogFaithfulHolds, PartsAssumption
<1>8. CronSpec => []DaysAgree
  BY DaysAgreeHolds
<1>9. Spec => /\ []NoOrphans /\ []StaleSessionsRaced /\ []BootstrapConfined
              /\ RevivedByResolve
  BY NoOrphansHolds, StaleSessionsRacedHolds, BootstrapConfinedHolds, RevivedByResolveHolds
<1> QED BY <1>1, <1>2, <1>3, <1>4, <1>5, <1>6, <1>7, <1>8, <1>9, ServicesAreTheirParts
=============================================================================
