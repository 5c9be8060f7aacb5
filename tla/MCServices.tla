----------------------------- MODULE MCServices -----------------------------
(***************************************************************************)
(* Small instances of the components that share no state with the queue or *)
(* with each other: each behaviour is one of `subject`, and the state of   *)
(* the others stays as it was.                                             *)
(***************************************************************************)
EXTENDS Access, LogTail, Retention, SecretMasker, RateLimiter, EnvVars,
        CronDays, Webhook, Catalog, TLC

CONSTANT Subjects  \* components the run is about

(* Bound: up to two values of up to three letters. *)
SmallValues == UNION {[1..n -> Letter] : n \in 1..3}
SmallSecretSets == {{}} \cup {{v, w} : v, w \in SmallValues}

ASSUME PartsAssumption ==
    /\ TailAssumption /\ RetentionAssumption /\ MaskerAssumption
    /\ LimiterAssumption /\ EnvVarsAssumption /\ CronAssumption
    /\ WebhookAssumption /\ CatalogAssumption

VARIABLE subject

servicesVars == <<subject, vars, tailVars, retentionVars, maskerVars, limiterVars,
                  envVars, cronVars, webhookVars, catalogVars>>

(* The others begin in one state each. *)
ServicesInit ==
    /\ subject \in Subjects
    /\ Init /\ TailInit /\ RetentionInit /\ LimiterInit /\ CatalogInit
    /\ MaskerInit /\ (subject # "masker" => values = {})
    /\ EnvVarsInit /\ (subject # "env" => setting = None)
    /\ CronInit /\ (subject # "cron" => expression = [dom |-> All, dow |-> All])
    /\ WebhookInit /\ (subject # "report" => url = "set")

(* The variables of every component but this one stay. *)
Others(component) ==
    /\ UNCHANGED subject
    /\ component # "access" => UNCHANGED vars
    /\ component # "tail" => UNCHANGED tailVars
    /\ component # "logs" => UNCHANGED retentionVars
    /\ component # "masker" => UNCHANGED maskerVars
    /\ component # "limiter" => UNCHANGED limiterVars
    /\ component # "env" => UNCHANGED envVars
    /\ component # "cron" => UNCHANGED cronVars
    /\ component # "report" => UNCHANGED webhookVars
    /\ component # "catalog" => UNCHANGED catalogVars

ServicesNext ==
    \/ subject = "access" /\ Next /\ Others("access")
    \/ subject = "tail" /\ TailNext /\ Others("tail")
    \/ subject = "logs" /\ RetentionNext /\ Others("logs")
    \/ subject = "masker" /\ MaskerNext /\ Others("masker")
    \/ subject = "limiter" /\ LimiterNext /\ Others("limiter")
    \/ subject = "env" /\ EnvVarsNext /\ Others("env")
    \/ subject = "cron" /\ CronNext /\ Others("cron")
    \/ subject = "report" /\ WebhookNext /\ Others("report")
    \/ subject = "catalog" /\ CatalogNext /\ Others("catalog")

ServicesSpec == ServicesInit /\ [][ServicesNext]_servicesVars /\ RetentionFairness

-----------------------------------------------------------------------------

(* Each component keeps to its types. *)
PartsTypeOK ==
    /\ TypeOK /\ TailTypeOK /\ RetentionTypeOK /\ MaskerTypeOK /\ LimiterTypeOK
    /\ EnvVarsTypeOK /\ CronTypeOK /\ WebhookTypeOK /\ CatalogTypeOK
=============================================================================
