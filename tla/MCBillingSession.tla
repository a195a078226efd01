-------------------------- MODULE MCBillingSession --------------------------
(* Instances of BillingSession for TLC.                                    *)
EXTENDS BillingSession, TLC

CONSTANTS r1, r2

MCRequests == {r1, r2}
Symmetry == Permutations(MCRequests)

Profile(k, p, pg, tt) ==
    [kind |-> k, preference |-> p, playground |-> pg, tokenTrusted |-> tt]

\* Text, image and task, over the wallet and the subscription, a playground
\* request and a trusted token among them.
RequestProfiles ==
    {Profile("text", "wallet_only", FALSE, TRUE),
     Profile("image", "wallet_first", FALSE, FALSE),
     Profile("text", "subscription_first", TRUE, FALSE),
     Profile("task", "subscription_only", FALSE, FALSE)}

\* No image: what RequestCharge is implemented by.
TextAndTaskProfiles ==
    {Profile("text", "subscription_first", FALSE, TRUE),
     Profile("task", "wallet_first", FALSE, FALSE)}

ImageProfiles == {Profile("image", "wallet_only", FALSE, FALSE)}
=============================================================================
