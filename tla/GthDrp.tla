------------------------------- MODULE GthDrp -------------------------------
(***************************************************************************)
(* The configuration fields of a GTH transceiver (the channel) and of the  *)
(* four transceivers of a quad (common), as the dynamic reconfiguration    *)
(* port shows them: names, addresses, lowest bits and widths, in the order *)
(* of the tables.  A word of the port has 16 bits and may hold several     *)
(* fields.                                                                 *)
(***************************************************************************)
EXTENDS Integers, Sequences, SequencesExt

-----------------------------------------------------------------------------
\* Channel

Names1 == <<"CDR_SWAP_MODE_EN", "RXBUFRESET_TIME", "EYE_SCAN_SWAP_EN", "RX_DATA_WIDTH", "RXCDRFREQRESET_TIME",
  "RXCDRPHRESET_TIME", "PCI3_RX_ELECIDLE_H2L_DISABLE", "RXDFELPMRESET_TIME", "RX_FABINT_USRCLK_FLOP",
  "RXPMARESET_TIME", "PCI3_RX_ELECIDLE_LP4_DISABLE", "PCI3_RX_ELECIDLE_EI2_ENABLE", "PCI3_RX_FIFO_DISABLE",
  "RXPCSRESET_TIME", "RXELECIDLE_CFG", "RXDFE_HB_CFG1", "TXPMARESET_TIME", "RX_PMA_POWER_SAVE",
  "TX_PMA_POWER_SAVE", "TXPCSRESET_TIME", "WB_MODE", "RXPMACLK_SEL", "TX_FABINT_USRCLK_FLOP",
  "TX_PROGCLK_SEL", "RXISCANRESET_TIME", "RXCDR_CFG0", "RXCDR_CFG1", "RXCDR_CFG2", "RXCDR_CFG3", "RXCDR_CFG4",
  "RXCDR_LOCK_CFG0", "CHAN_BOND_MAX_SKEW", "CHAN_BOND_SEQ_LEN", "CHAN_BOND_SEQ_1_1",
  "PCI3_RX_ELECIDLE_HI_COUNT", "CHAN_BOND_SEQ_1_3", "PCI3_RX_ELECIDLE_H2L_COUNT", "CHAN_BOND_SEQ_1_4",
  "RX_BUFFER_CFG", "RX_DEFER_RESET_BUF_EN", "OOBDIVCTL", "PCI3_AUTO_REALIGN", "PCI3_PIPE_RX_ELECIDLE",
  "CHAN_BOND_SEQ_1_ENABLE", "PCI3_RX_ASYNC_EBUF_BYPASS", "CHAN_BOND_SEQ_2_1", "CHAN_BOND_SEQ_2_2",
  "CHAN_BOND_SEQ_2_3", "CHAN_BOND_SEQ_2_4", "CHAN_BOND_SEQ_2_ENABLE", "CHAN_BOND_SEQ_2_USE",
  "CLK_COR_KEEP_IDLE", "CLK_COR_MIN_LAT", "CLK_COR_MAX_LAT", "CLK_COR_PRECEDENCE", "CLK_COR_REPEAT_WAIT",
  "CLK_COR_SEQ_LEN", "CHAN_BOND_KEEP_ALIGN", "CLK_COR_SEQ_1_1", "CLK_COR_SEQ_1_2", "CLK_COR_SEQ_1_3",
  "CLK_COR_SEQ_1_4", "CLK_COR_SEQ_1_ENABLE", "CLK_COR_SEQ_2_1", "CLK_COR_SEQ_2_2", "CLK_COR_SEQ_2_ENABLE",
  "CLK_COR_SEQ_2_USE", "CLK_CORRECT_USE", "CLK_COR_SEQ_2_3", "CLK_COR_SEQ_2_4", "RXDFE_HE_CFG0",
  "ALIGN_COMMA_WORD", "ALIGN_COMMA_DOUBLE", "SHOW_REALIGN_COMMA", "ALIGN_COMMA_ENABLE", "CPLL_FBDIV",
  "CPLL_FBDIV_45", "TXDRVBIAS_N", "CPLL_LOCK_CFG", "CPLL_REFCLK_DIV", "SATA_CPLL_CFG", "TXDRVBIAS_P",
  "CPLL_INIT_CFG0", "DEC_PCOMMA_DETECT", "TX_DIVRESET_TIME", "RX_DIVRESET_TIME", "A_TXPROGDIVRESET",
  "A_RXPROGDIVRESET", "RXCDR_LOCK_CFG1", "RXCFOK_CFG1", "RXDFE_H2_CFG0", "RXDFE_H2_CFG1", "RXCFOK_CFG2",
  "RXLPM_CFG", "RXLPM_KH_CFG0", "RXLPM_KH_CFG1", "RXDFELPM_KL_CFG0", "RXDFELPM_KL_CFG1", "RXLPM_OS_CFG0",
  "RXLPM_OS_CFG1", "RXLPM_GC_CFG", "DMONITOR_CFG1", "ES_CONTROL", "ES_ERRDET_EN", "ES_EYE_SCAN_EN",
  "ES_PRESCALE", "RXDFE_HC_CFG0", "TX_PROGDIV_CFG", "ES_QUALIFIER0", "ES_QUALIFIER1", "ES_QUALIFIER2",
  "ES_QUALIFIER3", "ES_QUALIFIER4", "ES_QUAL_MASK0", "ES_QUAL_MASK1", "ES_QUAL_MASK2", "ES_QUAL_MASK3",
  "ES_QUAL_MASK4", "ES_SDATA_MASK0", "ES_SDATA_MASK1", "ES_SDATA_MASK2", "ES_SDATA_MASK3", "ES_SDATA_MASK4",
  "FTS_LANE_DESKEW_EN", "FTS_DESKEW_SEQ_ENABLE", "ES_HORZ_OFFSET", "FTS_LANE_DESKEW_CFG", "RXDFE_HC_CFG1",
  "ES_PMA_CFG", "RX_EN_HI_LR", "RX_DFE_AGC_CFG1", "RX_DFE_AGC_CFG0", "RXDFE_CFG0", "RXDFE_CFG1">>
Names2 == <<"LOCAL_MASTER", "PCS_PCIE_EN", "ALIGN_MCOMMA_DET", "ALIGN_MCOMMA_VALUE", "ALIGN_PCOMMA_DET",
  "ALIGN_PCOMMA_VALUE", "TXDLY_LCFG", "RXDFE_OS_CFG0", "RXPHDLY_CFG", "RXDFE_OS_CFG1", "RXDLY_CFG",
  "RXDLY_LCFG", "RXDFE_HF_CFG0", "RXDFE_HD_CFG0", "RX_BIAS_CFG0", "PCS_RSVD0", "RXPH_MONITOR_SEL",
  "RX_CM_BUF_PD", "RX_CM_BUF_CFG", "RX_CM_TRIM", "RX_CM_SEL", "RX_SUM_DFETAPREP_EN", "RX_SUM_VCM_OVWR",
  "RX_SUM_IREF_TUNE", "RX_SUM_RES_CTRL", "RX_SUM_VCMTUNE", "RX_SUM_VREF_TUNE", "CBCC_DATA_SOURCE_SEL",
  "OOB_PWRUP", "RXOOB_CFG", "RXOUT_DIV", "RX_SIG_VALID_DLY", "RXSLIDE_MODE", "RXPRBS_ERR_LOOPBACK",
  "RXSLIDE_AUTO_WAIT", "RXBUF_EN", "RX_XCLK_SEL", "RXGEARBOX_EN", "RXBUF_THRESH_OVFLW", "DMONITOR_CFG0",
  "RXBUF_THRESH_OVRD", "RXBUF_RESET_ON_COMMAALIGN", "RXBUF_RESET_ON_RATE_CHANGE", "RXBUF_RESET_ON_CB_CHANGE",
  "RXBUF_THRESH_UNDFLW", "RX_CLKMUX_EN", "RX_DISPERR_SEQ_MATCH", "RXBUF_ADDR_MODE", "RX_WIDEMODE_CDR",
  "RX_INT_DATAWIDTH", "RXBUF_EIDLE_HI_CNT", "RXCDR_HOLD_DURING_EIDLE", "RX_DFE_LPM_HOLD_DURING_EIDLE",
  "RXBUF_EIDLE_LO_CNT", "RXBUF_RESET_ON_EIDLE", "RXCDR_FR_RESET_ON_EIDLE", "RXCDR_PH_RESET_ON_EIDLE",
  "SATA_BURST_VAL", "SATA_BURST_SEQ_LEN", "SATA_EIDLE_VAL", "SATA_MIN_BURST", "SAS_MIN_COM", "SATA_MIN_INIT",
  "SATA_MIN_WAKE", "SATA_MAX_BURST", "SAS_MAX_COM", "SATA_MAX_INIT", "SATA_MAX_WAKE", "RX_CLK25_DIV",
  "TXPHDLY_CFG0", "TXPHDLY_CFG1", "TXDLY_CFG", "TXPH_MONITOR_SEL", "TAPDLY_SET_TX", "RXCDR_LOCK_CFG2",
  "TXPH_CFG", "TERM_RCAL_CFG", "RXDFE_HF_CFG1", "PD_TRANS_TIME_FROM_P2", "TERM_RCAL_OVRD",
  "PD_TRANS_TIME_NONE_P2", "PD_TRANS_TIME_TO_P2", "TRANS_TIME_RATE", "TST_RSV0", "TST_RSV1", "TX_CLK25_DIV",
  "TX_XCLK_SEL", "TX_DATA_WIDTH", "TX_DEEMPH0", "TX_DEEMPH1", "TX_MAINCURSOR_SEL", "TXGEARBOX_EN",
  "TXOUT_DIV", "TXBUF_EN", "TXBUF_RESET_ON_RATE_CHANGE", "TX_RXDETECT_REF", "TXFIFO_ADDR_CFG",
  "TX_RXDETECT_CFG", "TX_CLKMUX_EN", "TX_LOOPBACK_DRIVE_HIZ", "TX_DRIVE_MODE", "TX_EIDLE_ASSERT_DELAY",
  "TX_EIDLE_DEASSERT_DELAY", "TX_MARGIN_FULL_0", "TX_MARGIN_FULL_1", "TX_MARGIN_FULL_2", "TX_MARGIN_FULL_3",
  "TX_MARGIN_FULL_4", "TX_MARGIN_LOW_0", "TX_MARGIN_LOW_1", "TX_MARGIN_LOW_2", "TX_MARGIN_LOW_3",
  "TX_MARGIN_LOW_4", "RXDFE_HD_CFG1", "TX_QPI_STATUS_EN", "TX_INT_DATAWIDTH", "RXPRBS_LINKACQ_CNT",
  "TX_PMADATA_OPT", "RXSYNC_OVRD", "TXSYNC_OVRD", "TX_IDLE_DATA_ZERO", "A_RXOSCALRESET", "RXOOB_CLK_CFG",
  "TXSYNC_SKIP_DA", "RXSYNC_SKIP_DA", "RXOSCALRESET_TIME", "TXSYNC_MULTILANE", "RXSYNC_MULTILANE",
  "RX_CTLE3_LPF", "ACJTAG_MODE", "ACJTAG_DEBUG_MODE", "ACJTAG_RESET", "RESET_POWERSAVE_DISABLE",
  "RX_TUNE_AFE_OS">>
Names3 == <<"RX_DFE_KL_LPM_KL_CFG0", "RX_DFE_KL_LPM_KL_CFG1", "RXDFELPM_KL_CFG2", "RXDFE_VP_CFG0",
  "RXDFE_VP_CFG1", "RXDFE_UT_CFG1", "ADAPT_CFG0", "ADAPT_CFG1", "RXCFOK_CFG0", "ES_CLK_PHASE_SEL",
  "USE_PCS_CLK_PHASE_SEL", "PMA_RSV1", "RX_AFE_CM_EN", "RX_CAPFF_SARC_ENB", "RX_EYESCAN_VS_NEG_DIR",
  "RX_EYESCAN_VS_UT_SIGN", "RX_EYESCAN_VS_CODE", "RX_EYESCAN_VS_RANGE", "RXDFE_HE_CFG1", "GEARBOX_MODE",
  "TXPI_SYNFREQ_PPM", "TXPI_PPMCLK_SEL", "TXPI_INVSTROBE_SEL", "TXPI_GRAY_SEL", "TXPI_LPM", "TXPI_VREFSEL",
  "TXPI_PPM_CFG", "RX_DFELPM_KLKH_AGC_STUP_EN", "RX_DFELPM_CFG0", "RX_DFELPM_CFG1", "RX_DFE_KL_LPM_KH_CFG0",
  "RX_DFE_KL_LPM_KH_CFG1", "TXPI_CFG0", "TXPI_CFG1", "TXPI_CFG2", "TXPI_CFG3", "TXPI_CFG4", "TXPI_CFG5",
  "RXPI_CFG1", "RXPI_CFG2", "RXPI_CFG3", "RXPI_CFG4", "RXPI_CFG5", "RXPI_CFG6", "RXPI_CFG0", "RXDFE_UT_CFG0",
  "RXDFE_GC_CFG0", "RXDFE_GC_CFG1", "RXDFE_GC_CFG2", "RXCDR_CFG0_GEN3", "RXCDR_CFG1_GEN3", "RXCDR_CFG2_GEN3",
  "RXCDR_CFG3_GEN3", "RXCDR_CFG4_GEN3", "RXCDR_CFG5_GEN3", "RXCDR_CFG5", "PCIE_RXPMA_CFG",
  "PCIE_TXPCS_CFG_GEN3", "PCIE_TXPMA_CFG", "RX_CLK_SLIP_OVRD", "PCS_RSVD1", "PLL_SEL_MODE_GEN3",
  "PLL_SEL_MODE_GEN12", "RATE_SW_USE_DRP", "RXPI_LPM", "RXPI_VREFSEL", "RXDFE_H3_CFG0", "DFE_D_X_REL_POS",
  "DFE_VCM_COMP_EN", "GM_BIAS_SELECT", "EVODD_PHI_CFG", "RXDFE_H3_CFG1", "RXDFE_H4_CFG0", "RXDFE_H4_CFG1",
  "RXDFE_H5_CFG0", "PROCESS_PAR", "TEMPERATUR_PAR", "TX_MODE_SEL", "TX_SARC_LPBK_ENB", "RXDFE_H5_CFG1",
  "TX_DCD_CFG", "TX_DCD_EN", "TX_EML_PHI_TUNE", "CPLL_CFG3", "RXDFE_H6_CFG0", "RXDFE_H6_CFG1",
  "RXDFE_H7_CFG0", "DDI_REALIGN_WAIT", "DDI_CTRL", "TXGBOX_FIFO_INIT_RD_ADDR", "TX_SAMPLE_PERIOD",
  "RXGBOX_FIFO_INIT_RD_ADDR", "RX_SAMPLE_PERIOD", "CPLL_CFG2", "RXPHSAMP_CFG", "RXPHSLIP_CFG",
  "RXPHBEACON_CFG", "RXDFE_H7_CFG1", "RXDFE_H8_CFG0", "RXDFE_H8_CFG1", "PCIE_BUFG_DIV_CTRL",
  "PCIE_RXPCS_CFG_GEN3", "RXDFE_H9_CFG0", "RX_PROGDIV_CFG", "RXDFE_H9_CFG1", "RXDFE_HA_CFG0",
  "CHAN_BOND_SEQ_1_2", "CPLL_CFG0", "CPLL_CFG1", "CPLL_INIT_CFG1", "RX_DDI_SEL", "DEC_VALID_COMMA_ONLY",
  "DEC_MCOMMA_DETECT", "RXDFE_HA_CFG1", "RXDFE_HB_CFG0", "COMMA_ALIGN_LATENCY", "es_error_count",
  "es_sample_count", "es_control_status", "es_rdata_byte4", "es_rdata_byte3", "es_rdata_byte2",
  "es_rdata_byte1", "es_rdata_byte0", "es_sdata_byte4", "es_sdata_byte3", "es_sdata_byte2", "es_sdata_byte1",
  "es_sdata_byte0", "RX_PRBS_ERR_CNT_LOW", "RX_PRBS_ERR_CNT_HIGH", "TXGBOX_FIFO_LATENCY",
  "RXGBOX_FIFO_LATENCY">>
Names == Names1 \o Names2 \o Names3

Address1 == <<2, 3, 3, 3, 3, 4, 4, 4, 4, 5, 5, 5, 5, 5, 5, 6, 9, 9, 9, 9, 11, 11, 11, 12, 12, 14, 15, 16, 17,
  18, 19, 20, 20, 20, 21, 21, 22, 22, 23, 23, 23, 23, 23, 24, 24, 24, 25, 26, 27, 28, 28, 28, 28, 29, 29, 29,
  29, 29, 30, 31, 32, 33, 34, 34, 35, 36, 36, 36, 36, 37, 38, 39, 39, 39, 39, 40, 40, 40, 41, 42, 42, 42, 43,
  44, 44, 44, 44, 44, 45, 46, 47, 48, 49, 50, 51, 52, 53, 54, 55, 56, 57, 58, 60, 60, 60, 60, 61, 62, 63, 64,
  65, 66, 67, 68, 69, 70, 71, 72, 73, 74, 75, 76, 77, 78, 78, 79, 79, 80, 81, 82, 82, 82, 83, 84>>
Address2 == <<85, 85, 85, 85, 86, 86, 87, 88, 89, 90, 91, 92, 93, 94, 95, 96, 97, 97, 97, 97, 97, 98, 98, 98,
  98, 98, 98, 99, 99, 99, 99, 100, 100, 100, 100, 100, 100, 100, 101, 101, 102, 102, 102, 102, 102, 102, 102,
  102, 102, 102, 103, 103, 103, 103, 103, 103, 103, 104, 104, 104, 105, 105, 106, 106, 107, 107, 108, 108,
  109, 110, 111, 112, 113, 113, 114, 115, 116, 117, 118, 118, 119, 119, 120, 121, 121, 122, 122, 122, 123,
  123, 124, 124, 124, 124, 124, 124, 124, 125, 126, 126, 126, 126, 126, 127, 127, 128, 128, 129, 129, 130,
  130, 131, 131, 132, 133, 133, 137, 138, 138, 138, 138, 138, 138, 138, 138, 138, 139, 139, 139, 140, 140,
  140, 140, 140>>
Address3 == <<140, 140, 141, 142, 143, 144, 145, 146, 147, 148, 148, 149, 151, 151, 151, 151, 151, 151, 152,
  153, 153, 153, 153, 153, 153, 153, 154, 155, 155, 155, 155, 155, 156, 156, 156, 156, 156, 156, 157, 157,
  157, 157, 157, 157, 157, 158, 159, 160, 161, 162, 163, 164, 165, 166, 167, 168, 169, 170, 171, 172, 172,
  173, 173, 173, 173, 173, 174, 175, 175, 175, 175, 176, 177, 178, 179, 180, 180, 180, 180, 181, 182, 182,
  182, 182, 183, 184, 185, 186, 186, 187, 187, 187, 187, 188, 189, 190, 191, 192, 193, 194, 195, 196, 197,
  198, 199, 200, 202, 203, 204, 205, 205, 205, 205, 206, 207, 336, 337, 338, 339, 340, 341, 342, 343, 344,
  345, 346, 347, 348, 349, 350, 351, 355, 361>>
Address == Address1 \o Address2 \o Address3

Low1 == <<0, 11, 9, 5, 0, 11, 8, 1, 0, 11, 10, 9, 8, 3, 0, 0, 11, 10, 9, 3, 14, 8, 4, 10, 5, 0, 0, 0, 0, 0, 0,
  12, 10, 0, 10, 0, 10, 0, 10, 9, 7, 5, 4, 12, 10, 0, 0, 0, 0, 12, 11, 6, 0, 10, 9, 4, 2, 0, 0, 0, 0, 0, 12,
  0, 0, 12, 11, 10, 0, 0, 0, 13, 12, 11, 0, 8, 7, 0, 0, 11, 5, 0, 0, 15, 7, 2, 1, 0, 0, 0, 0, 0, 0, 0, 0, 0,
  0, 0, 0, 0, 0, 8, 10, 9, 8, 0, 0, 0, 0, 0, 0, 0, 0, 0, 0, 0, 0, 0, 0, 0, 0, 0, 0, 4, 0, 4, 0, 0, 0, 10, 2,
  0, 0, 0>>
Low2 == <<13, 12, 10, 0, 10, 0, 0, 0, 0, 0, 0, 0, 0, 0, 0, 0, 11, 10, 6, 2, 0, 14, 13, 9, 7, 3, 0, 15, 14, 5,
  0, 11, 9, 8, 4, 3, 1, 0, 10, 0, 15, 14, 13, 12, 6, 5, 4, 3, 2, 0, 12, 11, 10, 4, 3, 2, 1, 13, 4, 0, 10, 1,
  10, 1, 10, 0, 10, 1, 3, 0, 0, 0, 2, 0, 0, 0, 0, 0, 4, 1, 8, 0, 8, 8, 0, 11, 10, 0, 10, 2, 14, 13, 8, 7, 6,
  3, 2, 2, 15, 14, 8, 5, 2, 9, 1, 9, 1, 9, 1, 9, 1, 9, 1, 0, 13, 10, 0, 15, 14, 13, 12, 11, 10, 9, 8, 0, 10,
  9, 0, 15, 14, 13, 12, 10>>
Low3 == <<8, 5, 0, 0, 0, 0, 0, 0, 0, 11, 10, 0, 12, 11, 10, 9, 2, 0, 0, 11, 8, 7, 6, 5, 3, 2, 0, 15, 11, 10,
  8, 5, 11, 9, 7, 6, 5, 2, 14, 12, 10, 9, 8, 5, 3, 0, 0, 0, 0, 0, 0, 0, 0, 0, 0, 0, 0, 0, 0, 3, 0, 11, 9, 8,
  3, 2, 0, 15, 14, 13, 0, 0, 0, 0, 0, 13, 8, 5, 4, 0, 10, 9, 8, 0, 0, 0, 0, 2, 0, 9, 6, 3, 0, 0, 0, 0, 0, 0,
  0, 0, 0, 0, 0, 0, 0, 0, 0, 0, 0, 8, 2, 1, 0, 0, 0, 0, 0, 0, 0, 0, 0, 0, 0, 0, 0, 0, 0, 0, 0, 0, 0, 0, 0>>
Low == Low1 \o Low2 \o Low3

Width1 == <<1, 5, 1, 4, 5, 5, 3, 7, 1, 5, 1, 1, 1, 5, 3, 16, 5, 1, 1, 5, 2, 2, 1, 2, 5, 16, 16, 16, 16, 16,
  16, 4, 2, 10, 6, 10, 6, 10, 6, 1, 2, 2, 1, 4, 2, 10, 10, 10, 10, 4, 1, 1, 6, 6, 1, 5, 2, 1, 10, 10, 10, 10,
  4, 10, 10, 4, 1, 1, 10, 10, 16, 3, 1, 1, 10, 8, 1, 4, 16, 5, 2, 4, 16, 1, 5, 5, 1, 1, 16, 16, 16, 16, 16,
  16, 16, 16, 16, 16, 16, 16, 16, 8, 6, 1, 1, 5, 16, 16, 16, 16, 16, 16, 16, 16, 16, 16, 16, 16, 16, 16, 16,
  16, 16, 1, 4, 12, 4, 16, 10, 1, 3, 2, 16, 16>>
Width2 == <<1, 1, 1, 10, 1, 10, 16, 16, 16, 16, 16, 16, 16, 16, 16, 16, 5, 1, 4, 4, 2, 1, 1, 4, 2, 4, 3, 1, 1,
  9, 3, 5, 2, 1, 4, 1, 2, 1, 6, 10, 1, 1, 1, 1, 6, 1, 1, 1, 1, 2, 4, 1, 1, 4, 1, 1, 1, 3, 4, 3, 6, 6, 6, 6, 6,
  7, 6, 6, 5, 16, 16, 16, 5, 2, 16, 16, 15, 16, 12, 3, 8, 8, 8, 8, 8, 5, 1, 4, 6, 6, 1, 1, 3, 1, 1, 3, 1, 14,
  1, 1, 5, 3, 3, 7, 7, 7, 7, 7, 7, 7, 7, 7, 7, 16, 1, 2, 8, 1, 1, 1, 1, 1, 1, 1, 1, 5, 1, 1, 8, 1, 1, 1, 1,
  2>>
Width3 == <<2, 3, 16, 16, 16, 16, 16, 16, 16, 1, 1, 16, 1, 1, 1, 1, 7, 2, 16, 5, 3, 1, 1, 1, 1, 1, 8, 1, 4, 1,
  2, 3, 2, 2, 2, 1, 1, 3, 2, 2, 2, 1, 1, 3, 2, 16, 16, 16, 16, 16, 16, 16, 16, 16, 16, 16, 16, 16, 16, 5, 3,
  2, 2, 1, 1, 1, 16, 1, 1, 1, 11, 16, 16, 16, 16, 3, 4, 3, 1, 16, 6, 1, 1, 6, 16, 16, 16, 5, 2, 3, 3, 3, 3,
  16, 16, 16, 16, 16, 16, 16, 16, 16, 16, 16, 16, 16, 10, 16, 16, 8, 6, 1, 1, 16, 16, 7, 16, 16, 4, 16, 16,
  16, 16, 16, 16, 16, 16, 16, 16, 16, 16, 16, 16>>
Width == Width1 \o Width2 \o Width3

\* Each address once, to read the port back.
Aliases1 == ToSet(Address1)
Aliases2 == ToSet(Address2)
Aliases3 == ToSet(Address3)
Aliases == Aliases1 \cup Aliases2 \cup Aliases3

\* The field of that name, its value in a word, and a word with this value.
Index == [name \in ToSet(Names) |-> CHOOSE i \in DOMAIN Names : Names[i] = name]
Addr(name) == Address[Index[name]]
FieldOf(name, word) == LET i == Index[name] IN (word \div 2^Low[i]) % 2^Width[i]
Placed(name, value) == LET i == Index[name] IN (value % 2^Width[i]) * 2^Low[i]
FieldsAt(addr) == {Names[i] : i \in {j \in DOMAIN Names : Address[j] = addr}}

-----------------------------------------------------------------------------
\* Common: never read, the port of the quad is not connected.

CommonNames == <<"QPLL0_CFG0", "COMMON_CFG0", "RSVD_ATTR0", "QPLL0_CFG1", "QPLL0_CFG2", "QPLL0_LOCK_CFG",
  "QPLL0_INIT_CFG0", "QPLL0_INIT_CFG1", "QPLL0_FBDIV", "QPLL0_CFG3", "QPLL0_CP", "QPLL0_REFCLK_DIV",
  "QPLL0_LPF", "QPLL0_CFG1_G3", "QPLL0_CFG2_G3", "QPLL0_LPF_G3", "QPLL0_LOCK_CFG_G3", "RSVD_ATTR1",
  "QPLL0_FBDIV_G3", "RXRECCLKOUT0_SEL", "QPLL0_SDM_CFG0", "QPLL0_SDM_CFG1", "SDM0INITSEED0_0",
  "SDM0INITSEED0_1", "QPLL0_SDM_CFG2", "QPLL0_CP_G3", "SDM0DATA1_0", "SDM0_WIDTH_PIN_SEL",
  "SDM0_DATA_PIN_SEL", "SDM0DATA1_1", "QPLL0_CFG4", "BIAS_CFG0", "BIAS_CFG1", "BIAS_CFG2", "BIAS_CFG3",
  "BIAS_CFG_RSVD", "BIAS_CFG4", "QPLL1_CFG0", "COMMON_CFG1", "POR_CFG", "QPLL1_CFG1", "QPLL1_CFG2",
  "QPLL1_LOCK_CFG", "QPLL1_INIT_CFG0", "QPLL1_INIT_CFG1", "QPLL1_FBDIV", "QPLL1_CFG3", "QPLL1_CP", "SARC_SEL",
  "SARC_EN", "QPLL1_REFCLK_DIV", "QPLL1_LPF", "QPLL1_CFG1_G3", "QPLL1_CFG2_G3", "QPLL1_LPF_G3",
  "QPLL1_LOCK_CFG_G3", "RSVD_ATTR2", "QPLL1_FBDIV_G3", "RXRECCLKOUT1_SEL", "QPLL1_SDM_CFG0", "QPLL1_SDM_CFG1",
  "SDM1INITSEED0_0", "SDM1INITSEED0_1", "QPLL1_SDM_CFG2">>

CommonAddress == <<8, 9, 11, 16, 17, 18, 19, 20, 20, 21, 22, 24, 25, 26, 27, 28, 29, 30, 31, 31, 32, 33, 34,
  35, 36, 37, 40, 41, 41, 41, 48, 129, 130, 131, 132, 133, 134, 136, 137, 139, 144, 145, 146, 147, 148, 148,
  149, 150, 152, 152, 152, 153, 154, 155, 156, 157, 158, 159, 159, 160, 161, 162, 163, 164>>

CommonLow == <<0, 0, 0, 0, 0, 0, 0, 8, 0, 0, 0, 7, 0, 0, 0, 0, 0, 0, 8, 0, 0, 0, 0, 0, 0, 0, 0, 10, 9, 0, 0,
  0, 0, 0, 0, 0, 0, 0, 0, 0, 0, 0, 0, 0, 8, 0, 0, 0, 13, 12, 7, 0, 0, 0, 0, 0, 0, 8, 0, 0, 0, 0, 0, 0>>

CommonWidth == <<16, 16, 16, 16, 16, 16, 16, 8, 8, 16, 10, 5, 10, 16, 16, 10, 16, 16, 8, 2, 16, 16, 16, 9, 16,
  10, 16, 1, 1, 9, 16, 16, 16, 16, 16, 10, 16, 16, 16, 16, 16, 16, 16, 16, 8, 8, 16, 10, 1, 1, 5, 10, 16, 16,
  10, 16, 16, 8, 2, 16, 16, 16, 9, 16>>

CommonAliases == ToSet(CommonAddress)

-----------------------------------------------------------------------------
\* The fields of a word do not overlap, so that a word is read once and cut
\* into its fields.
Disjoint(address, low, width) ==
  \A i \in DOMAIN address :
    /\ low[i] + width[i] <= 16
    /\ \A j \in DOMAIN address :
         i < j /\ address[i] = address[j] => low[i] + width[i] <= low[j] \/ low[j] + width[j] <= low[i]
ASSUME FieldsAreDisjoint == Disjoint(Address, Low, Width) /\ Disjoint(CommonAddress, CommonLow, CommonWidth)
=============================================================================
