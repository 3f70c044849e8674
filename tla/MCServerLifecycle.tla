-------------------------- MODULE MCServerLifecycle --------------------------
(* Options from three layers, endpoint lists with every kind of tie, two   *)
(* signals.                                                                *)
EXTENDS ServerLifecycle

MCConfigFiles ==
  {<<>>, [preload |-> FALSE], [strict |-> TRUE], [mode |-> "Sign"]}

MCEnvironments ==
  {[apiKey |-> "k", optimized |-> "disabled"],
   [apiKey |-> "k", preload |-> "", policy |-> "Basic256Sha256"],
   [requireAuth |-> "0", optimized |-> "fast"],
   [strict |-> "true"]}

MCCommandLines ==
  {<<>>, [requireAuth |-> FALSE, mode |-> "None"], [mode |-> "Signed"],
   [mode |-> "SignAndEncrypt", strict |-> TRUE, apiKey |-> ""],
   [mode |-> "Auto", preload |-> FALSE]}

Endpoint(m, p, l) == [mode |-> m, policy |-> p, level |-> l]

MCOffers ==
  {<<>>,
   <<Endpoint("None", "None", 9)>>,
   <<Endpoint("None", "None", 9), Endpoint("Sign", "Basic256Sha256", 0)>>,
   <<Endpoint("Sign", "Basic256Sha256", 1),
     Endpoint("SignAndEncrypt", "Basic256Sha256", 1)>>,
   <<Endpoint("Sign", "Brainpool", 2), Endpoint("Sign", "Basic256", 2)>>,
   <<Endpoint("SignAndEncrypt", "Basic256", 2),
     Endpoint("Sign", "Aes256_Sha256_RsaPss", 1), Endpoint("None", "None", 0)>>}
=============================================================================
