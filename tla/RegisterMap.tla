----------------------------- MODULE RegisterMap -----------------------------
(***************************************************************************)
(* The addresses of the registers, from src/src/constants.rs.              *)
(*                                                                         *)
(* The file comes from a driver for other chips (82598, 82599, X540, X550) *)
(* and some addresses were changed for the 82576, so that it names         *)
(* registers of several chips.  A register is a name and an index; the map *)
(* gives its address.  Names that the file defines as another name are     *)
(* left out, and so are masks.  An array has the length that a comment in  *)
(* the file gives, MAX_QUEUES if it is indexed by a queue, and otherwise   *)
(* only its first element.                                                 *)
(***************************************************************************)
EXTENDS Naturals

CONSTANT MAX_QUEUES   \* numbers of queues, of either kind

ASSUME MapAssumption == MAX_QUEUES \in Nat \ {0}

\* f, and g where f is not defined.
f \sqcup g ==
  [x \in DOMAIN f \cup DOMAIN g |-> IF x \in DOMAIN f THEN f[x] ELSE g[x]]

\* A record of single registers, each with the index 0.
Words(addresses) ==
  [name \in DOMAIN addresses |-> [i \in {0} |-> addresses[name]]]

\* An array of registers.
Array(base, stride, count) == [i \in 0 .. count - 1 |-> base + i * stride]

\* SRRCTL and DCA_RXCTRL: one array in three places.
Replicated(first, second, third) ==
  [i \in 0 .. 127 |-> IF i <= 15 THEN first + i * 4
                      ELSE IF i < 64 THEN second + i * \h40
                      ELSE third + (i - 64) * \h40]

\* What the functions for registers of single chips return.
IGB_BY_MAC == 0

\* Fault: the formula of the other chips, which the file keeps in a comment.
RxRing_82599(offset) == Array(\h01000 + offset, \h40, MAX_QUEUES)

\* A register of all receive queues.
RxRing(offset) == Array(\h0C000 + offset, \h40, MAX_QUEUES)

\* A register of all transmit queues.
TxRing(offset) == Array(\h0E000 + offset, \h40, MAX_QUEUES)

-----------------------------------------------------------------------------
\* General and NVM registers.
GeneralRegisters ==
  Words([CTRL |-> \h00000, MDIC |-> \h00020, STATUS |-> \h00008, CTRL_EXT |-> \h00018,
         ESDP |-> \h00020, EODSDP |-> \h00028, I2CCTL_82599 |-> \h00028,
         I2CCTL_X550 |-> \h15F5C, I2CCTL_BY_MAC |-> IGB_BY_MAC, PHY_GPIO |-> \h00028,
         MAC_GPIO |-> \h00030, PHYINT_STATUS0 |-> \h00100, PHYINT_STATUS1 |-> \h00104,
         PHYINT_STATUS2 |-> \h00108, LEDCTL |-> \h00200, FRTIMER |-> \h00048,
         TCPTIMER |-> \h0004C, CORESPARE |-> \h00600, EXVET |-> \h05078, EEC |-> \h10010,
         EEC_X550EM_a |-> \h15FF8, EEC_BY_MAC |-> IGB_BY_MAC, EERD |-> \h10014,
         EEWR |-> \h10018, FLA |-> \h1001C, FLA_X550EM_a |-> \h15F68,
         FLA_BY_MAC |-> IGB_BY_MAC, EEMNGCTL |-> \h10110, EEMNGDATA |-> \h10114,
         FLMNGCTL |-> \h10118, FLMNGDATA |-> \h1011C, FLMNGCNT |-> \h10120, FLOP |-> \h1013C,
         GRC |-> \h10200, GRC_X550EM_a |-> \h15F64, GRC_BY_MAC |-> IGB_BY_MAC,
         SRAMREL |-> \h10210, SRAMREL_X550EM_a |-> \h15F6C, SRAMREL_BY_MAC |-> IGB_BY_MAC,
         PHYDBG |-> \h10218, VPDDIAG0 |-> \h10204, VPDDIAG1 |-> \h10208])

\* Interrupt registers.
InterruptRegisters ==
  Words([ICR |-> \h01500, ICS |-> \h01504, IMS |-> \h01508, IMC |-> \h0150C,
         EICS_EX |-> \h00A90, EIMS_EX |-> \h00AA0, EIMC_EX |-> \h00AB0, EIAM_EX |-> \h00AD0,
         IVAR_MISC |-> \h00A00, EITRSEL |-> \h00894, MSIXT |-> \h00000, MSIXPBA |-> \h02000,
         GPIE |-> \h00898])
  \sqcup [EITR |-> [i \in 0 .. 24 |-> IF i <= 23 THEN \h00820 + i * 4 ELSE \h12300 + (i - 24) * 4],
          IVAR |-> Array(\h00900, 4, (MAX_QUEUES + 1) \div 2),
          PBACL |-> [i \in 0 .. 1 |-> IF i = 0 THEN \h11068 ELSE \h110C0 + i * 4]]

\* Flow control and receive DMA.
ReceiveRegisters ==
  Words([FCADBUL |-> \h03210, FCADBUH |-> \h03214, FCAMACL |-> \h04328, FCAMACH |-> \h0432C,
         PFCTOP |-> \h03008, FCRTV |-> \h032A0, FCCFG |-> \h03D00, TFCS |-> \h0CE00,
         RSCDBU |-> \h03028, RDDCC |-> \h02F20, RXMEMWRAP |-> \h03190, STARCTRL |-> \h03024,
         RDRXCTL |-> \h02F00, RXCTRL |-> \h00100, DROPEN |-> \h03D04, RXCSUM |-> \h05000,
         RFCTL |-> \h05008, DRECCCTL |-> \h02F08, DRECCCTL2 |-> \h02F8C])
  \sqcup [FCRTH_82599 |-> Array(\h03260, 4, 8), FCRTL_82599 |-> Array(\h03220, 4, 8),
          FCTTV |-> Array(\h03200, 4, 4), FCRTL |-> Array(\h03220, 8, 8),
          FCRTH |-> Array(\h03260, 8, 8), RDBAL |-> RxRing(0),
          RDBAH |-> RxRing(4), RDLEN |-> RxRing(8),
          RDH |-> RxRing(\h10), RDT |-> RxRing(\h18),
          RXDCTL |-> RxRing(\h28),
          RSCCTL |-> [i \in 0 .. 127 |-> IF i < 64 THEN \h0102C + i * \h40 ELSE \h0D02C + (i - 64) * \h40],
          SRRCTL |-> Replicated(\h02100, \h01014, \h0D014),
          DCA_RXCTRL |-> Replicated(\h02200, \h0100C, \h0D00C),
          RXPBSIZE |-> Array(\h03C00, 4, 8)]

\* Receive filters.
FilterRegisters ==
  Words([MPSAR_LO |-> \h0A600, MPSAR_HI |-> \h0A604, VFTA |-> \h0A000, VFTAVIND |-> \h0A200,
         FCTRL |-> \h05080, VLNCTRL |-> \h05088, MCSTCTRL |-> \h05090, MRQC |-> \h05818,
         SAQF |-> \h0E000, DAQF |-> \h0E200, SDPQF |-> \h0E400, FTQF |-> \h0E600,
         ETQF |-> \h05128, ETQS |-> \h0EC00, SYNQF |-> \h0EC30, RQTC |-> \h0EC70,
         MTQC |-> \h08120, PFFLPL |-> \h050B0, PFFLPH |-> \h050B4, VT_CTL |-> \h051B0])
  \sqcup [MTA |-> Array(\h05200, 4, 128),
          RAL |-> [i \in 0 .. 16 |-> IF i <= 15 THEN \h05400 + i * 8 ELSE \h054E0 + (i - 16) * 8],
          RAH |-> [i \in 0 .. 16 |-> IF i <= 15 THEN \h05404 + i * 8 ELSE \h054E4 + (i - 16) * 8],
          PSRTYPE |-> [i \in 0 .. 16 |-> IF i <= 15 THEN \h05480 + i * 4 ELSE \h0EA00 + i * 4],
          VLVF |-> Array(\h0F100, 4, 64), VLVFB |-> Array(\h0F200, 4, 128),
          VMVIR |-> Array(\h08000, 4, 64)]

\* Virtualisation and receive-side scaling.
VirtualRegisters ==
  Words([VFRE |-> \h051E0, VFTE |-> \h08110, VMECM |-> \h08790, QDE |-> \h2F04,
         UTA |-> \h0F400, MRCTL |-> \h0F600, VMRVLAN |-> \h0F610, VMRVM |-> \h0F630,
         LVMMC_RX |-> \h2FA8, LVMMC_TX |-> \h8108, LMVM_RX |-> \h2FA4, LMVM_TX |-> \h8124,
         RXFECCERR0 |-> \h051B8, LLITHRESH |-> \h0EC90, IMIRVP |-> \h05AC0,
         VMD_CTL |-> \h0581C, PFVFMRQC |-> \h03400, PFVFRSSRK |-> \h018000,
         PFVFRETA |-> \h019000])
  \sqcup [PFMAILBOX |-> Array(\h04B00, 4, 64), PFMBMEM |-> Array(\h13000, 64, 64),
          PFMBICR |-> Array(\h00710, 4, 4), PFMBIMR |-> Array(\h00720, 4, 4),
          VMTXSW |-> Array(\h05180, 4, 2), VMOLR |-> Array(\h0F000, 4, 64),
          WQBR_RX |-> Array(\h2FB0, 4, 4), WQBR_TX |-> Array(\h8130, 4, 4),
          L34T_IMIR |-> Array(\h0E800, 4, 128), IMIR |-> Array(\h05A80, 4, 8),
          IMIREXT |-> Array(\h05AA0, 4, 8), RETA |-> Array(\h05C00, 4, 32),
          ERETA |-> Array(\h0EE80, 4, 96), RSSRK |-> Array(\h05C80, 4, 10)]

\* Flow director.
FlowDirectorRegisters ==
  Words([FDIRCTRL |-> \h0EE00, FDIRHKEY |-> \h0EE68, FDIRSKEY |-> \h0EE6C,
         FDIRDIP4M |-> \h0EE3C, FDIRSIP4M |-> \h0EE40, FDIRTCPM |-> \h0EE44,
         FDIRUDPM |-> \h0EE48, FDIRSCTPM |-> \h0EE78, FDIRIP6M |-> \h0EE74,
         FDIRM |-> \h0EE70, FDIRFREE |-> \h0EE38, FDIRLEN |-> \h0EE4C, FDIRUSTAT |-> \h0EE50,
         FDIRFSTAT |-> \h0EE54, FDIRMATCH |-> \h0EE58, FDIRMISS |-> \h0EE5C,
         FDIRIPSA |-> \h0EE18, FDIRIPDA |-> \h0EE1C, FDIRPORT |-> \h0EE20,
         FDIRVLAN |-> \h0EE24, FDIRHASH |-> \h0EE28, FDIRCMD |-> \h0EE2C])
  \sqcup [FDIRSIPv6 |-> Array(\h0EE0C, 4, 3)]

\* Transmit DMA.
TransmitRegisters ==
  Words([TDWBAL |-> \h06038, TDWBAH |-> \h0603C, DTXCTL |-> \h07E00, DMATXCTL |-> \h04A80,
         PFDTXGSWC |-> \h08220, DTXMXSZRQ |-> \h08100, DTXTCPFLGL |-> \h04A88,
         DTXTCPFLGH |-> \h04A8C, LBDRPEN |-> \h0CA00, TIPG |-> \h0CB00,
         MNGTXMAP |-> \h0CD10])
  \sqcup [TDBAL |-> TxRing(0), TDBAH |-> TxRing(4),
          TDLEN |-> TxRing(8), TDH |-> TxRing(\h10),
          TDT |-> TxRing(\h18), TXDCTL |-> TxRing(\h28),
          PFVFSPOOF |-> Array(\h08200, 4, 8), TXPBTHRESH |-> Array(\h04950, 4, 8),
          DCA_TXCTRL |-> Array(\h07200, 4, 16), DCA_TXCTRL_82599 |-> Array(\h0600C, \h40, 128),
          TXPBSIZE |-> Array(\h0CC00, 4, 8)]

\* Wake up and proxying.
WakeUpRegisters ==
  Words([WUC |-> \h05800, WUFC |-> \h05808, WUS |-> \h05810, IPAV |-> \h05838,
         IP4AT |-> \h05840, IP6AT |-> \h05880, WUPL |-> \h05900, WUPM |-> \h05A00,
         PROXYS |-> \h05F60, PROXYFC |-> \h05F64, VXLANCTRL |-> \h0000507C, FHFT |-> \h09000,
         FHFT_EXT |-> \h09800, FHFT_EXT_X550 |-> \h09600])

\* Traffic classes, DMA coalescing, energy, security.
PowerRegisters ==
  Words([RMCS |-> \h03D00, DPMCS |-> \h07F40, PDPMCS |-> \h0CD00, RUPPBMR |-> \h050A0,
         DMCMNGTH |-> \h15F20, DMACR |-> \h02400, DMCTLX |-> \h02404, EEER |-> \h043A0,
         EEE_STAT |-> \h04398, EEE_SU |-> \h04380, TLPIC |-> \h041F4, RLPIC |-> \h041F8,
         SECTXCTRL |-> \h08800, SECTXSTAT |-> \h08804, SECTXBUFFAF |-> \h08808,
         SECTXMINIFG |-> \h08810, SECRXCTRL |-> \h08D00, SECRXSTAT |-> \h08D04])
  \sqcup [RT2CR |-> Array(\h03C20, 4, 8), RT2SR |-> Array(\h03C40, 4, 8),
          TDTQ2TCCR |-> Array(\h0602C, \h40, 8), TDTQ2TCSR |-> Array(\h0622C, \h40, 8),
          TDPT2TCCR |-> Array(\h0CD20, 4, 8), TDPT2TCSR |-> Array(\h0CD40, 4, 8),
          DMCTH |-> Array(\h03300, 4, 8)]

\* LinkSec and IpSec.
SecurityRegisters ==
  Words([LSECTXCAP |-> \h08A00, LSECRXCAP |-> \h08F00, LSECTXCTRL |-> \h08A04,
         LSECTXSCL |-> \h08A08, LSECTXSCH |-> \h08A0C, LSECTXSA |-> \h08A10,
         LSECTXPN0 |-> \h08A14, LSECTXPN1 |-> \h08A18, LSECRXCTRL |-> \h08F04,
         LSECRXSCL |-> \h08F08, LSECRXSCH |-> \h08F0C, LSECRXKEY |-> \h08F20,
         LSECTXUT |-> \h08A3C, LSECTXPKTE |-> \h08A40, LSECTXPKTP |-> \h08A44,
         LSECTXOCTE |-> \h08A48, LSECTXOCTP |-> \h08A4C, LSECRXUT |-> \h08F40,
         LSECRXOCTD |-> \h08F44, LSECRXOCTV |-> \h08F48, LSECRXBAD |-> \h08F4C,
         LSECRXNOSCI |-> \h08F50, LSECRXUNSCI |-> \h08F54, LSECRXUNCH |-> \h08F58,
         LSECRXDELAY |-> \h08F5C, LSECRXLATE |-> \h08F60, LSECRXOK |-> \h08F64,
         LSECRXINV |-> \h08F6C, LSECRXNV |-> \h08F74, LSECRXUNSA |-> \h08F7C,
         LSECRXNUSA |-> \h08F80, IPSTXIDX |-> \h08900, IPSTXSALT |-> \h08904,
         IPSRXIDX |-> \h08E00, IPSRXSPI |-> \h08E14, IPSRXIPIDX |-> \h08E18,
         IPSRXSALT |-> \h08E2C, IPSRXMOD |-> \h08E30])
  \sqcup [LSECTXKEY0 |-> Array(\h08A1C, 4, 4), LSECTXKEY1 |-> Array(\h08A2C, 4, 4),
          LSECRXSA |-> Array(\h08F10, 4, 2), LSECRXPN |-> Array(\h08F18, 4, 2),
          IPSTXKEY |-> Array(\h08908, 4, 4), IPSRXIPADDR |-> Array(\h08E04, 4, 4),
          IPSRXKEY |-> Array(\h08E1C, 4, 4)]

\* Data center bridging and FCoE.
FcoeRegisters ==
  Words([RTRPCS |-> \h02430, RTTDCS |-> \h04900, RTTPCS |-> \h0CD00, RTRUP2TC |-> \h03020,
         RTTUP2TC |-> \h0C800, RTTDQSEL |-> \h04904, RTTDT1C |-> \h04908,
         RTTDT1S |-> \h0490C, RTTDTECC |-> \h04990, RTTBCNRC |-> \h04984,
         RTTBCNRM |-> \h04980, RTTBCNRS |-> \h04988, RTTBCNCR |-> \h08B00,
         RTTBCNACH |-> \h08B04, RTTBCNACL |-> \h08B08, RTTBCNTG |-> \h04A90,
         RTTBCNIDX |-> \h08B0C, RTTBCNCP |-> \h08B10, RTFRTIMER |-> \h08B14,
         RTTBCNRTT |-> \h05150, RTTBCNRD |-> \h0498C, FCDDC |-> \h20000, FCPTRL |-> \h02410,
         FCPTRH |-> \h02414, FCBUFF |-> \h02418, FCDMARW |-> \h02420, TEOFF |-> \h04A94,
         TSOFF |-> \h04A98, REOFF |-> \h05158, RSOFF |-> \h051F8, FCD_ID |-> \h05114,
         FCSMAC |-> \h0510C, FCDFC |-> \h28000, FCDFCD |-> \h30000, FCFLT |-> \h05108,
         FCFLTRW |-> \h05110, FCPARAM |-> \h051D8, FCRXCTRL |-> \h05100, FCRECTL |-> \h0ED00,
         FCRETA0 |-> \h0ED10, FCRETA |-> \h0ED10])
  \sqcup [RTRPT4C |-> Array(\h02140, 4, 8), TXLLQ |-> Array(\h082E0, 4, 4),
          RTRPT4S |-> Array(\h02160, 4, 8), RTTDT2C |-> Array(\h04910, 4, 8),
          RTTDT2S |-> Array(\h04930, 4, 8), RTTPT2C |-> Array(\h0CD20, 4, 8),
          RTTPT2S |-> Array(\h0CD40, 4, 8)]

\* Statistics.
StatisticsRegisters ==
  Words([CRCERRS |-> \h04000, ILLERRC |-> \h04004, ERRBC |-> \h04008, MSPDC |-> \h04010,
         MLFC |-> \h04034, MRFC |-> \h04038, RLEC |-> \h04040, LXONTXC |-> \h03F60,
         LXONRXC |-> \h0CF60, LXOFFTXC |-> \h03F68, LXOFFRXC |-> \h0CF68,
         LXONRXCNT |-> \h041A4, LXOFFRXCNT |-> \h041A8, PRC64 |-> \h0405C,
         PRC127 |-> \h04060, PRC255 |-> \h04064, PRC511 |-> \h04068, PRC1023 |-> \h0406C,
         PRC1522 |-> \h04070, GPRC |-> \h04074, BPRC |-> \h04078, MPRC |-> \h0407C,
         GPTC |-> \h04080, GORCL |-> \h04088, GORCH |-> \h0408C, GOTCL |-> \h04090,
         GOTCH |-> \h04094, RUC |-> \h040A4, RFC |-> \h040A8, ROC |-> \h040AC,
         RJC |-> \h040B0, MNGPRC |-> \h040B4, MNGPDC |-> \h040B8, MNGPTC |-> \h0CF90,
         TORL |-> \h040C0, TORH |-> \h040C4, TPR |-> \h040D0, TPT |-> \h040D4,
         PTC64 |-> \h040D8, PTC127 |-> \h040DC, PTC255 |-> \h040E0, PTC511 |-> \h040E4,
         PTC1023 |-> \h040E8, PTC1522 |-> \h040EC, MPTC |-> \h040F0, BPTC |-> \h040F4,
         XEC |-> \h04120, SSVPC |-> \h08780, RQSMR |-> \h02300, TQSM |-> \h08600,
         FCCRC |-> \h05118, FCOERPDC |-> \h0241C, FCLAST |-> \h02424, FCOEPRC |-> \h02428,
         FCOEDWRC |-> \h0242C, FCOEPTC |-> \h08784, FCOEDWTC |-> \h08788,
         O2BGPTC |-> \h041C4, O2BSPC |-> \h087B0, B2OSPC |-> \h041C0, B2OGPRC |-> \h02F90,
         BUPRC |-> \h04180, BMPRC |-> \h04184, BBPRC |-> \h04188, BUPTC |-> \h0418C,
         BMPTC |-> \h04190, BBPTC |-> \h04194, BCRCERRS |-> \h04198, BXONRXC |-> \h0419C,
         BXOFFRXC |-> \h041E0, BXONTXC |-> \h041E4, BXOFFTXC |-> \h041E8])
  \sqcup [MPC |-> Array(\h03FA0, 4, 8), PXONRXCNT |-> Array(\h04140, 4, 8),
          PXOFFRXCNT |-> Array(\h04160, 4, 8), PXON2OFFCNT |-> Array(\h03240, 4, 8),
          PXONTXC |-> Array(\h03F00, 4, 8), PXONRXC |-> Array(\h0CF00, 4, 8),
          PXOFFTXC |-> Array(\h03F20, 4, 8), PXOFFRXC |-> Array(\h0CF20, 4, 8),
          RNBC |-> Array(\h03FC0, 4, 8),
          TQSMR |-> [i \in 0 .. 8 |-> IF i <= 7 THEN \h07300 + i * 4 ELSE \h08600 + i * 4],
          QPRC |-> Array(\h01030, \h40, 16), QPTC |-> Array(\h06030, \h40, 16),
          QBRC |-> Array(\h01034, \h40, 16), QBTC |-> Array(\h06034, \h40, 16),
          QBRC_L |-> Array(\h01034, \h40, 16), QBRC_H |-> Array(\h01038, \h40, 16),
          QPRDC |-> Array(\h01430, \h40, 16), QBTC_L |-> Array(\h08700, 8, 16),
          QBTC_H |-> Array(\h08704, 8, 16)]

\* Management and PCI-E.
ManagementRegisters ==
  Words([MANC |-> \h05820, MFVAL |-> \h05824, MANC2H |-> \h05860, MIPAF |-> \h058B0,
         FTFT |-> \h09400, LSWFW |-> \h15F14, BMCIPVAL |-> \h05060, HICR |-> \h15F00,
         FWSTS |-> \h15F0C, HSMC0R |-> \h15F04, HSMC1R |-> \h15F08, SWSR |-> \h15F10,
         HFDR |-> \h15FE8, FLEX_MNG |-> \h15800, GCR |-> \h11000, GTV |-> \h11004,
         FUNCTAG |-> \h11008, GLT |-> \h1100C, PCIEPIPEADR |-> \h11004,
         PCIEPIPEDAT |-> \h11008, GSCL_1 |-> \h11010, GSCL_2 |-> \h11014, GSCL_3 |-> \h11018,
         GSCL_4 |-> \h1101C, GSCN_0 |-> \h11020, GSCN_1 |-> \h11024, GSCN_2 |-> \h11028,
         GSCN_3 |-> \h1102C, FACTPS |-> \h10150, GSCL_1_X550 |-> \h11800,
         GSCL_2_X550 |-> \h11804, GSCN_0_X550 |-> \h11820, GSCN_1_X550 |-> \h11824,
         GSCN_2_X550 |-> \h11828, GSCN_3_X550 |-> \h1182C, FACTPS_X550EM_a |-> \h15FEC,
         FACTPS_BY_MAC |-> IGB_BY_MAC, PCIEANACTL |-> \h11040, SWSM |-> \h10140,
         SWSM_X550EM_a |-> \h15F70, SWSM_BY_MAC |-> IGB_BY_MAC, FWSM |-> \h10148,
         FWSM_X550EM_a |-> \h15F74, FWSM_BY_MAC |-> IGB_BY_MAC,
         SWFW_SYNC_X550EM_a |-> \h15F78, SWFW_SYNC_BY_MAC |-> IGB_BY_MAC, GSSR |-> \h10160,
         MREVID |-> \h11064, DCA_ID |-> \h11070, DCA_CTRL |-> \h11074])
  \sqcup [MAVTV |-> Array(\h05010, 4, 8), MFUTP |-> Array(\h05030, 4, 8),
          MDEF |-> Array(\h05890, 4, 8), MMAL |-> Array(\h05910, 8, 4),
          MMAH |-> Array(\h05914, 8, 4), METF |-> Array(\h05190, 4, 4),
          MDEF_EXT |-> Array(\h05160, 4, 8), BMCIP |-> Array(\h05050, 4, 4)]

\* PCI-E of single chips and time synchronisation.
PciRegisters ==
  Words([GCR_EXT |-> \h11050, GSCL_5_82599 |-> \h11030, GSCL_6_82599 |-> \h11034,
         GSCL_7_82599 |-> \h11038, GSCL_8_82599 |-> \h1103C, PHYADR_82599 |-> \h11040,
         PHYDAT_82599 |-> \h11044, PHYCTL_82599 |-> \h11048, PBACLR_82599 |-> \h11068,
         CIAA |-> \h11088, CIAD |-> \h1108C, GSCL_5_X550 |-> \h11810,
         GSCL_6_X550 |-> \h11814, GSCL_7_X550 |-> \h11818, GSCL_8_X550 |-> \h1181C,
         CIAA_X550 |-> \h11508, CIAD_X550 |-> \h11510, CIAA_BY_MAC |-> IGB_BY_MAC,
         CIAD_BY_MAC |-> IGB_BY_MAC, PICAUSE |-> \h110B0, PIENA |-> \h110B8,
         CDQ_MBR_82599 |-> \h110B4, PCIESPARE |-> \h110BC, MISC_REG_82599 |-> \h110F0,
         ECC_CTRL_0_82599 |-> \h11100, ECC_CTRL_1_82599 |-> \h11104,
         ECC_STATUS_82599 |-> \h110E0, BAR_CTRL_82599 |-> \h110F4, TSYNCRXCTL |-> \h05188,
         TSYNCTXCTL |-> \h08C00, RXSTMPL |-> \h051E8, RXSTMPH |-> \h051A4,
         RXSATRL |-> \h051A0, RXSATRH |-> \h051A8, RXMTRL |-> \h05120, TXSTMPL |-> \h08C04,
         TXSTMPH |-> \h08C08, SYSTIML |-> \h08C0C, SYSTIMH |-> \h08C10, SYSTIMR |-> \h08C58,
         TIMINCA |-> \h08C14, TIMADJL |-> \h08C18, TIMADJH |-> \h08C1C, TSAUXC |-> \h08C20,
         TRGTTIML0 |-> \h08C24, TRGTTIMH0 |-> \h08C28, TRGTTIML1 |-> \h08C2C,
         TRGTTIMH1 |-> \h08C30, CLKTIML |-> \h08C34, CLKTIMH |-> \h08C38,
         FREQOUT0 |-> \h08C34, FREQOUT1 |-> \h08C38, AUXSTMPL0 |-> \h08C3C,
         AUXSTMPH0 |-> \h08C40, AUXSTMPL1 |-> \h08C44, AUXSTMPH1 |-> \h08C48,
         TSIM |-> \h08C68, TSICR |-> \h08C60, TSSDP |-> \h0003C])

\* Diagnostics.
DiagnosticRegisters ==
  Words([RDSTATCTL |-> \h02C20, RDHMPN |-> \h02F08, RIC_DW |-> \h02F10, RDPROBE |-> \h02F20,
         RDMAM |-> \h02F30, RDMAD |-> \h02F34, TDHMPN |-> \h07F08, TDHMPN2 |-> \h082FC,
         TXDESCIC |-> \h082CC, TIC_DW |-> \h07F10, TIC_DW2 |-> \h082B0, TDPROBE |-> \h07F20,
         TXBUFCTRL |-> \h0C600, TXBUFDATA0 |-> \h0C610, TXBUFDATA1 |-> \h0C614,
         TXBUFDATA2 |-> \h0C618, TXBUFDATA3 |-> \h0C61C, RXBUFCTRL |-> \h03600,
         RXBUFDATA0 |-> \h03610, RXBUFDATA1 |-> \h03614, RXBUFDATA2 |-> \h03618,
         RXBUFDATA3 |-> \h0361C, RFVAL |-> \h050A4, MDFTC1 |-> \h042B8, MDFTC2 |-> \h042C0,
         MDFTFIFO1 |-> \h042C4, MDFTFIFO2 |-> \h042C8, MDFTS |-> \h042CC,
         PCIEECCCTL |-> \h1106C, PCIEECCCTL0 |-> \h11100, PCIEECCCTL1 |-> \h11104,
         RXDBUECC |-> \h03F70, TXDBUECC |-> \h0CF70, RXDBUEST |-> \h03F74,
         TXDBUEST |-> \h0CF74, PBTXECC |-> \h0C300, PBRXECC |-> \h03300, GHECCR |-> \h110B0])
  \sqcup [RDSTAT |-> Array(\h02C00, 4, 8), PCIE_DIAG |-> Array(\h11090, 4, 8),
          RXDATAWRPTR |-> Array(\h03700, 4, 8), RXDESCWRPTR |-> Array(\h03710, 4, 8),
          RXDATARDPTR |-> Array(\h03720, 4, 8), RXDESCRDPTR |-> Array(\h03730, 4, 8),
          TXDATAWRPTR |-> Array(\h0C700, 4, 8), TXDESCWRPTR |-> Array(\h0C710, 4, 8),
          TXDATARDPTR |-> Array(\h0C720, 4, 8), TXDESCRDPTR |-> Array(\h0C730, 4, 8),
          RXWRPTR |-> Array(\h03100, 4, 8), RXUSED |-> Array(\h03120, 4, 8),
          RXRDPTR |-> Array(\h03140, 4, 8), RXRDWRPTR |-> Array(\h03160, 4, 8),
          TXWRPTR |-> Array(\h0C100, 4, 8), TXUSED |-> Array(\h0C120, 4, 8),
          TXRDPTR |-> Array(\h0C140, 4, 8), TXRDWRPTR |-> Array(\h0C160, 4, 8)]

\* MAC and the remaining statistics.
MacRegisters ==
  Words([PCS1GCFIG |-> \h04200, PCS1GLCTL |-> \h04208, PCS1GLSTA |-> \h0420C,
         PCS1GDBG0 |-> \h04210, PCS1GDBG1 |-> \h04214, PCS1GANA |-> \h04218,
         PCS1GANLP |-> \h0421C, PCS1GANNP |-> \h04220, PCS1GANLPNP |-> \h04224,
         HLREG0 |-> \h04240, HLREG1 |-> \h04244, PAP |-> \h04248, MACA |-> \h0424C,
         APAE |-> \h04250, ARD |-> \h04254, AIS |-> \h04258, MSCA |-> \h0425C,
         MSRWD |-> \h04260, MLADD |-> \h04264, MHADD |-> \h04268, MAXFRS |-> \h04268,
         TREG |-> \h0426C, PCSS1 |-> \h04288, PCSS2 |-> \h0428C, XPCSS |-> \h04290,
         MFLCN |-> \h04294, SERDESC |-> \h04298, MAC_SGMII_BUSY |-> \h04298,
         MACS |-> \h0429C, AUTOC |-> \h042A0, LINKS |-> \h042A4, LINKS2 |-> \h04324,
         AUTOC2 |-> \h042A8, AUTOC3 |-> \h042AC, ANLP1 |-> \h042B0, ANLP2 |-> \h042B4,
         MACC |-> \h04330, ATLASCTL |-> \h04800, MMNGC |-> \h042D0, ANLPNP1 |-> \h042D4,
         ANLPNP2 |-> \h042D8, KRPCSFC |-> \h042E0, KRPCSS |-> \h042E4, FECS1 |-> \h042E8,
         FECS2 |-> \h042EC, SMADARCTL |-> \h14F10, MPVC |-> \h04318, SGMIIC |-> \h04314,
         RXNFGPC |-> \h041B0, RXNFGBCL |-> \h041B4, RXNFGBCH |-> \h041B8, RXDGPC |-> \h02F50,
         RXDGBCL |-> \h02F54, RXDGBCH |-> \h02F58, RXDDGPC |-> \h02F5C, RXDDGBCL |-> \h02F60,
         RXDDGBCH |-> \h02F64, RXLPBKGPC |-> \h02F68, RXLPBKGBCL |-> \h02F6C,
         RXLPBKGBCH |-> \h02F70, RXDLPBKGPC |-> \h02F74, RXDLPBKGBCL |-> \h02F78,
         RXDLPBKGBCH |-> \h02F7C, TXDGPC |-> \h087A0, TXDGBCL |-> \h087A4,
         TXDGBCH |-> \h087A8, RXDSTATCTRL |-> \h02F40])
-----------------------------------------------------------------------------
\* All of them.  No name is in two groups.
Groups ==
  <<GeneralRegisters, InterruptRegisters, ReceiveRegisters, FilterRegisters,
    VirtualRegisters, FlowDirectorRegisters, TransmitRegisters, WakeUpRegisters,
    PowerRegisters, SecurityRegisters, FcoeRegisters, StatisticsRegisters,
    ManagementRegisters, PciRegisters, DiagnosticRegisters, MacRegisters>>

\* The group that has a name.
GroupWith(name) == Groups[CHOOSE g \in 1 .. 16 : name \in DOMAIN Groups[g]]

Register ==
  UNION {UNION {{name} \X DOMAIN group[name] : name \in DOMAIN group} :
           group \in {Groups[g] : g \in 1 .. 16}}

Address == [r \in Register |-> GroupWith(r[1])[r[1]][r[2]]]
=============================================================================
