------------------------------ MODULE E1000Link ------------------------------
(***************************************************************************)
(* How the driver e1000.c sets up the copper link: the accesses to the     *)
(* registers of the PHY through MDIC, each of which may fail, and the      *)
(* returns that are looked at or not.  A value is the register its bits    *)
(* come from, or zero, with the bits that the driver has set in it.        *)
(***************************************************************************)
EXTENDS Integers

CONSTANT MaxLinkPolls   \* 10 in e1000_setup_copper_link()

ASSUME LinkAssumption == MaxLinkPolls \in Nat \ {0}

\* M88E1000_PHY_SPEC_CTRL, M88E1000_EXT_PHY_SPEC_CTRL, PHY_CTRL,
\* PHY_AUTONEG_ADV, PHY_1000T_CTRL and PHY_STATUS.
PhyRegs == {"pscr", "ext", "ctrl", "adv", "giga", "status"}

VARIABLES
    linkAt,             \* the access that comes next
    phyReg,             \* the registers
    phyData, gigaData,  \* the locals phy_data or mii_autoneg_adv_reg, and
                        \* mii_1000t_ctrl_reg
    failedReads,        \* history: the registers that some read failed on
    linkPolls,          \* the i of the loop over PHY_STATUS
    linkResult

linkVars == <<linkAt, phyReg, phyData, gigaData, failedReads, linkPolls, linkResult>>

ZeroData == [of |-> "zero", bits |-> {}]

\* e1000_read_phy_reg(): an error leaves *v alone.
MdicRead(r, v) == v' = phyReg[r] /\ UNCHANGED failedReads
MdicReadFails(r) == failedReads' = failedReads \union {r}

\* e1000_write_phy_reg(): a write that has not completed in time may still have
\* reached the PHY.
MdicWrite(r, data, bits) ==
    phyReg' = [phyReg EXCEPT ![r] = [data EXCEPT !.bits = @ \union bits]]

\* A read whose result nobody looks at, into phy_data.
ReadIgnored(l, r, next) ==
    /\ linkAt = l
    /\ \/ MdicRead(r, phyData)
       \/ MdicReadFails(r) /\ UNCHANGED phyData
    /\ linkAt' = next
    /\ UNCHANGED <<phyReg, gigaData, linkPolls, linkResult>>

\* A write of phy_data, after which the code goes on with next, after an error
\* with other; phy_data is then left, or the local of another function.
WriteThen(l, r, bits, next, other, data) ==
    /\ linkAt = l
    /\ \/ MdicWrite(r, phyData, bits) /\ linkAt' = next
       \/ (UNCHANGED phyReg \/ MdicWrite(r, phyData, bits)) /\ linkAt' = other
    /\ phyData' = data
    /\ UNCHANGED <<gigaData, failedReads, linkPolls, linkResult>>

\* e1000_copper_link_mgp_setup(): no result is looked at, and phy_data is one
\* variable for both registers.
MgpSetup ==
    \/ ReadIgnored("mgp_read", "pscr", "mgp_write")
    \/ WriteThen("mgp_write", "pscr", {"crs_on_tx", "auto_x"}, "ext_read", "ext_read", phyData)
    \/ ReadIgnored("ext_read", "ext", "ext_write")
    \/ WriteThen("ext_write", "ext", {"tx_clk", "downshift"}, "reset_read", "reset_read",
                 ZeroData)

\* e1000_phy_reset()
PhyReset ==
    \/ ReadIgnored("reset_read", "ctrl", "reset_write")
    \/ WriteThen("reset_write", "ctrl", {"reset"}, "adv_read", "adv_read", ZeroData)

\* Mutant: the first read is not looked at.
AdvReadIgnored ==
    /\ linkAt = "adv_read"
    /\ \/ MdicRead("adv", phyData)
       \/ MdicReadFails("adv") /\ UNCHANGED phyData
    /\ linkAt' = "giga_read"
    /\ UNCHANGED <<phyReg, gigaData, linkPolls, linkResult>>

\* e1000_phy_setup_autoneg() returns at the first error, ...
AdvRead ==
    /\ linkAt = "adv_read"
    /\ \/ MdicRead("adv", phyData) /\ linkAt' = "giga_read"
       \/ MdicReadFails("adv") /\ phyData' = ZeroData /\ linkAt' = "neg_read"
    /\ UNCHANGED <<phyReg, gigaData, linkPolls, linkResult>>

GigaRead ==
    /\ linkAt = "giga_read"
    /\ \/ MdicRead("giga", gigaData) /\ linkAt' = "adv_write" /\ UNCHANGED phyData
       \/ MdicReadFails("giga") /\ phyData' = ZeroData /\ linkAt' = "neg_read"
          /\ UNCHANGED gigaData
    /\ UNCHANGED <<phyReg, linkPolls, linkResult>>

AdvWrite == WriteThen("adv_write", "adv", {"10_100"}, "giga_write", "neg_read", ZeroData)

GigaWrite ==
    /\ linkAt = "giga_write"
    /\ UNCHANGED phyReg \/ MdicWrite("giga", gigaData, {"1000_full"})
    /\ linkAt' = "neg_read"
    /\ UNCHANGED <<phyData, gigaData, failedReads, linkPolls, linkResult>>

\* ... which e1000_copper_link_autoneg() does not look at: the negotiation is
\* restarted all the same, unless PHY_CTRL cannot be read.
RestartRead ==
    /\ linkAt = "neg_read"
    /\ \/ MdicRead("ctrl", phyData) /\ linkAt' = "neg_write"
       \/ MdicReadFails("ctrl") /\ linkAt' = "status" /\ UNCHANGED phyData
    /\ UNCHANGED <<phyReg, gigaData, linkPolls, linkResult>>

RestartAutoneg == WriteThen("neg_write", "ctrl", {"restart"}, "status", "status", ZeroData)

\* e1000_setup_copper_link(): PHY_STATUS is read twice, up to ten times; the
\* collision distance is set once the link is up.
PollStatus ==
    /\ linkAt = "status"
    /\ \/ failedReads' = failedReads \union {"status"} /\ linkAt' = "done"
          /\ linkResult' = "error" /\ UNCHANGED linkPolls
       \/ linkAt' = "done" /\ linkResult' = "valid" /\ UNCHANGED <<linkPolls, failedReads>>
       \/ /\ linkPolls' = linkPolls + 1
          /\ linkAt' = IF linkPolls' = MaxLinkPolls THEN "done" ELSE "status"
          /\ linkResult' = IF linkPolls' = MaxLinkPolls THEN "none" ELSE linkResult
          /\ UNCHANGED failedReads
    /\ UNCHANGED <<phyReg, phyData, gigaData>>

LinkInit ==
    /\ linkAt = "mgp_read"
    /\ phyReg = [r \in PhyRegs |-> [of |-> r, bits |-> {}]]
    /\ phyData = ZeroData /\ gigaData = ZeroData
    /\ failedReads = {} /\ linkPolls = 0 /\ linkResult = "unset"

LinkNext ==
    \/ MgpSetup \/ PhyReset \/ AdvRead \/ GigaRead \/ AdvWrite \/ GigaWrite
    \/ RestartRead \/ RestartAutoneg \/ PollStatus

LinkSpec == LinkInit /\ [][LinkNext]_linkVars
-----------------------------------------------------------------------------
\* Whatever accesses fail: what is advertised is the register's own content
\* with the speeds set, and another register is written with bits that are not
\* its own only if reading it has failed.
OwnBits ==
    /\ phyReg["adv"].of = "adv" /\ phyReg["giga"].of = "giga"
    /\ \A r \in PhyRegs : phyReg[r].of # r => r \in failedReads
=============================================================================
